---------------------------- MODULE Spec2Model ----------------------------
(***************************************************************************)
(* A model of go.nut, a client for the Network UPS Tools (NUT) protocol.   *)
(*                                                                         *)
(* The client is a sequential program: one goroutine owns the Client, and  *)
(* every exported operation is a chain of Client.SendCommand calls, each   *)
(* of which writes one command line and then blocks in ReadResponse.  The  *)
(* model is a stack machine over that call chain, the TCP connection, and  *)
(* the upsd server at its other end.                                       *)
(*                                                                         *)
(* The repository holds two versions of the session layer: src/nut.go and  *)
(* src/unnamed/part_001 (which also holds errorForMessage).  They differ   *)
(* in how ReadResponse treats end-of-stream, in what GetUPSList returns    *)
(* beside an error, and in error wrapping.  The variable `variant` says    *)
(* which of the two is linked into the program; ups.go is shared.          *)
(*                                                                         *)
(* Go strings are TLA+ strings; a byte of a string s is SubSeq(s, i, i).   *)
(***************************************************************************)
EXTENDS Integers, Sequences, FiniteSets, TLC

(***************************************************************************)
(*                     The Go standard library: strings                    *)
(***************************************************************************)

Char(s, i) == SubSeq(s, i, i)

\* strings.HasPrefix
HasPrefix(s, prefix) ==
    /\ Len(s) >= Len(prefix)
    /\ SubSeq(s, 1, Len(prefix)) = prefix

\* strings.HasSuffix
HasSuffix(s, suffix) ==
    /\ Len(s) >= Len(suffix)
    /\ SubSeq(s, Len(s) - Len(suffix) + 1, Len(s)) = suffix

\* strings.TrimPrefix: s without the leading prefix, or s itself.
TrimPrefix(s, prefix) ==
    IF HasPrefix(s, prefix) THEN SubSeq(s, Len(prefix) + 1, Len(s)) ELSE s

\* strings.TrimSuffix: s without the trailing suffix, or s itself.
TrimSuffix(s, suffix) ==
    IF HasSuffix(s, suffix) THEN SubSeq(s, 1, Len(s) - Len(suffix)) ELSE s

\* The first position of sep in s from position i on, 0 if there is none.
RECURSIVE IndexFrom(_, _, _)
IndexFrom(s, sep, i) ==
    IF i > Len(s) THEN 0
    ELSE IF Char(s, i) = sep THEN i
    ELSE IndexFrom(s, sep, i + 1)

\* strings.Index for a one-byte separator: the first position of sep in s, 0 if
\* there is none (positions count from 1 here).
Index(s, sep) == IndexFrom(s, sep, 1)

\* strings.Count for a one-byte substring.
Count(s, sep) == Cardinality({i \in 1..Len(s) : Char(s, i) = sep})

\* What a line says after a prefix it is known to have.
After(line, prefix) == SubSeq(line, Len(prefix) + 1, Len(line))

\* strings.Split for a one-byte separator: the substrings between the
\* separators, n+1 of them for n separators (so never an empty slice).
RECURSIVE Split(_, _)
Split(s, sep) ==
    LET i == Index(s, sep)
    IN  IF i = 0 THEN <<s>>
        ELSE <<SubSeq(s, 1, i - 1)>> \o Split(SubSeq(s, i + 1, Len(s)), sep)

\* strings.Replace(s, old, "", -1) for a one-byte old: every old removed.
RECURSIVE ReplaceAllEmpty(_, _)
ReplaceAllEmpty(s, old) ==
    LET i == Index(s, old)
    IN  IF i = 0 THEN s
        ELSE SubSeq(s, 1, i - 1) \o ReplaceAllEmpty(SubSeq(s, i + 1, Len(s)), old)

(***************************************************************************)
(*                     The Go standard library: strconv                    *)
(*                                                                         *)
(* A 64-bit integer does not fit TLC's integers, so a parsed number is     *)
(* kept exactly, as a sign and its decimal digits without leading zeros.   *)
(***************************************************************************)

Digits == {"0", "1", "2", "3", "4", "5", "6", "7", "8", "9"}

DigitVal(c) ==
    CASE c = "0" -> 0 [] c = "1" -> 1 [] c = "2" -> 2 [] c = "3" -> 3
      [] c = "4" -> 4 [] c = "5" -> 5 [] c = "6" -> 6 [] c = "7" -> 7
      [] c = "8" -> 8 [] c = "9" -> 9

AllDigits(s) == \A i \in 1..Len(s) : Char(s, i) \in Digits

\* The digits of s without leading zeros ("0" for zero).
RECURSIVE StripZeros(_)
StripZeros(s) ==
    IF Len(s) > 1 /\ Char(s, 1) = "0" THEN StripZeros(Tail(s))
    ELSE IF s = "" THEN "0" ELSE s

\* a < b or a = b for two digit strings without leading zeros.
RECURSIVE DigitsLeq(_, _)
DigitsLeq(a, b) ==
    IF Len(a) # Len(b) THEN Len(a) < Len(b)
    ELSE IF a = "" THEN TRUE
    ELSE IF Char(a, 1) # Char(b, 1) THEN DigitVal(Char(a, 1)) < DigitVal(Char(b, 1))
    ELSE DigitsLeq(Tail(a), Tail(b))

MaxInt64 == "9223372036854775807"
MinInt64Magnitude == "9223372036854775808"

\* strconv.ParseInt(s, 10, 64): an optional sign, then decimal digits only, at
\* least one; a value outside [-2^63, 2^63-1] is a range error.
ParseInt(s) ==
    LET neg  == HasPrefix(s, "-")
        body == IF HasPrefix(s, "-") \/ HasPrefix(s, "+") THEN Tail(s) ELSE s
        mag  == StripZeros(body)
    IN  IF body = "" \/ ~AllDigits(body)
        THEN [ok |-> FALSE, err |-> "invalid syntax", neg |-> FALSE, mag |-> "0"]
        ELSE IF ~DigitsLeq(mag, IF neg THEN MinInt64Magnitude ELSE MaxInt64)
        THEN [ok |-> FALSE, err |-> "value out of range", neg |-> FALSE, mag |-> "0"]
        ELSE [ok |-> TRUE, err |-> "", neg |-> neg /\ mag # "0", mag |-> mag]

\* strconv.Atoi: ParseInt(s, 10, 0), with int 64 bits wide.
Atoi(s) == ParseInt(s)

\* The decimal exponent after e/E as an integer; like the library, it stops
\* accumulating once the value reaches 10000 (far outside the float64 range).
RECURSIVE ExpVal(_, _)
ExpVal(s, acc) ==
    IF s = "" THEN acc
    ELSE ExpVal(Tail(s), IF acc < 10000 THEN acc * 10 + DigitVal(Char(s, 1)) ELSE acc)

\* The digits of s without trailing zeros ("0" for zero).
RECURSIVE StripTrailingZeros(_)
StripTrailingZeros(s) ==
    IF Len(s) > 1 /\ Char(s, Len(s)) = "0" THEN StripTrailingZeros(SubSeq(s, 1, Len(s) - 1))
    ELSE IF s = "" THEN "0" ELSE s

\* The number of leading zeros of s.
RECURSIVE LeadingZeros(_)
LeadingZeros(s) ==
    IF s # "" /\ Char(s, 1) = "0" THEN 1 + LeadingZeros(Tail(s)) ELSE 0

\* 0.a <= 0.b for two digit strings read as decimal fractions.
RECURSIVE FracLeq(_, _)
FracLeq(a, b) ==
    IF a = "" THEN TRUE
    ELSE IF b = "" THEN AllDigits(a) /\ StripZeros(a) = "0"
    ELSE IF Char(a, 1) # Char(b, 1) THEN DigitVal(Char(a, 1)) < DigitVal(Char(b, 1))
    ELSE FracLeq(Tail(a), Tail(b))

\* The float64 range in the form 0.<mant> * 10^exp: a decimal at or above
\* (MaxFloat64 + half an ulp) overflows, one at or below half the smallest
\* denormal rounds to zero.
FloatOverflow == [mant |-> "179769313486231580793", exp |-> 309]
FloatUnderflow == [mant |-> "247032822920623272", exp |-> 0 - 323]

FloatSyntaxError == [ok |-> FALSE, err |-> "invalid syntax", neg |-> FALSE, mant |-> "0", exp |-> 0]
FloatRangeError == [ok |-> FALSE, err |-> "value out of range", neg |-> FALSE, mant |-> "0", exp |-> 0]

\* strconv.ParseFloat(s, 64) on decimal input: an optional sign; digits with
\* at most one '.', at least one digit; an optional exponent e/E, optional
\* sign, at least one digit; or inf, infinity, nan.  The value is the decimal
\* itself in the form 0.<mant> * 10^exp with mant free of leading and trailing
\* zeros.  (Decimals of up to 15 significant digits round to distinct float64s,
\* so equal values are equal decimals.  Hexadecimal mantissas and digit
\* separators need the bytes 'x' and '_', and upper-case spellings of the
\* special values upper-case bytes; see RawValues for the bytes modelled.)
ParseFloat(s) ==
    LET neg     == HasPrefix(s, "-")
        body    == IF HasPrefix(s, "-") \/ HasPrefix(s, "+") THEN Tail(s) ELSE s
        ePos    == LET at == {i \in 1..Len(body) : Char(body, i) \in {"e", "E"}}
                   IN  IF at = {} THEN 0 ELSE CHOOSE i \in at : \A j \in at : i <= j
        mantStr == IF ePos = 0 THEN body ELSE SubSeq(body, 1, ePos - 1)
        expStr  == IF ePos = 0 THEN "" ELSE SubSeq(body, ePos + 1, Len(body))
        expNeg  == HasPrefix(expStr, "-")
        expDig  == IF HasPrefix(expStr, "-") \/ HasPrefix(expStr, "+") THEN Tail(expStr) ELSE expStr
        dot     == Index(mantStr, ".")
        intPart == IF dot = 0 THEN mantStr ELSE SubSeq(mantStr, 1, dot - 1)
        fraPart == IF dot = 0 THEN "" ELSE SubSeq(mantStr, dot + 1, Len(mantStr))
        all     == intPart \o fraPart
        e       == IF expNeg THEN 0 - ExpVal(expDig, 0) ELSE ExpVal(expDig, 0)
        lz      == LeadingZeros(all)
        mant    == StripTrailingZeros(StripZeros(all))
        exp     == Len(intPart) - lz + e
    IN  IF body \in {"inf", "infinity"}
        THEN [ok |-> TRUE, err |-> "", neg |-> neg, mant |-> "inf", exp |-> 0]
        ELSE IF body = "nan" /\ body = s
        THEN [ok |-> TRUE, err |-> "", neg |-> FALSE, mant |-> "nan", exp |-> 0]
        ELSE IF \/ all = ""
                \/ ~AllDigits(all)
                \/ (ePos # 0 /\ (expDig = "" \/ ~AllDigits(expDig)))
        THEN FloatSyntaxError
        ELSE IF mant = "0"
        THEN [ok |-> TRUE, err |-> "", neg |-> neg, mant |-> "0", exp |-> 0]
        ELSE IF \/ exp > FloatOverflow.exp
                \/ (exp = FloatOverflow.exp /\ FracLeq(FloatOverflow.mant, mant))
        THEN FloatRangeError
        ELSE IF \/ exp < FloatUnderflow.exp
                \/ (exp = FloatUnderflow.exp /\ FracLeq(mant, FloatUnderflow.mant))
        THEN [ok |-> TRUE, err |-> "", neg |-> neg, mant |-> "0", exp |-> 0]
        ELSE [ok |-> TRUE, err |-> "", neg |-> neg, mant |-> mant, exp |-> exp]

(***************************************************************************)
(*                                 Errors                                  *)
(***************************************************************************)

\* The nil error.
NoErr == [kind |-> "nil", msg |-> "", ctx |-> <<>>]

\* errors.New, and the errors of net.Conn and strconv, by the package they
\* come from.
NewError(kind, msg) == [kind |-> kind, msg |-> msg, ctx |-> <<>>]

\* fmt.Errorf("%w: <text>", err): err with one more layer of context.
Wrap(err, text) == [err EXCEPT !.ctx = Append(@, text)]

\* errorForMessage with its switch lost: the default for every code.
errorForMessageDefault(message) ==
    [kind |-> "nut", msg |-> "Unknown error code", ctx |-> <<>>]

\* errorForMessage: the error for a NUT error code (the typographic
\* apostrophes of the messages are written ').
errorForMessage(message) ==
    [kind |-> "nut",
     msg |->
       CASE message = "ACCESS-DENIED" ->
            "The client's host and/or authentication details (username, password) are not sufficient to execute the requested command"
         [] message = "UNKNOWN-UPS" ->
            "The UPS specified in the request is not known to upsd. This usually means that it didn't match anything in ups.conf"
         [] message = "VAR-NOT-SUPPORTED" ->
            "The specified UPS doesn't support the variable in the request. This is also sent for unrecognized variables which are in a space which is handled by upsd, such as server.*"
         [] message = "CMD-NOT-SUPPORTED" ->
            "The specified UPS doesn't support the instant command in the request"
         [] message = "INVALID-ARGUMENT" ->
            "The client sent an argument to a command which is not recognized or is otherwise invalid in this context. This is typically caused by sending a valid command like GET with an invalid subcommand"
         [] message = "INSTCMD-FAILED" ->
            "upsd failed to deliver the instant command request to the driver. No further information is available to the client. This typically indicates a dead or broken driver"
         [] message = "SET-FAILED" ->
            "upsd failed to deliver the set request to the driver. This is just like INSTCMD-FAILED above"
         [] message = "READONLY" ->
            "The requested variable in a SET command is not writable"
         [] message = "TOO-LONG" ->
            "The requested value in a SET command is too long"
         [] message = "FEATURE-NOT-SUPPORTED" ->
            "This instance of upsd does not support the requested feature. This is only used for TLS/SSL mode (STARTTLS) at the moment"
         [] message = "FEATURE-NOT-CONFIGURED" ->
            "This instance of upsd hasn't been configured properly to allow the requested feature to operate. This is also limited to STARTTLS for now"
         [] message = "ALREADY-SSL-MODE" ->
            "TLS/SSL mode is already enabled on this connection, so upsd can't start it again"
         [] message = "DRIVER-NOT-CONNECTED" ->
            "upsd can't perform the requested command, since the driver for that UPS is not connected. This usually means that the driver is not running, or if it is, the ups.conf is misconfigured"
         [] message = "DATA-STALE" ->
            "upsd is connected to the driver for the UPS, but that driver isn't providing regular updates or has specifically marked the data as stale. upsd refuses to provide variables on stale units to avoid false readings. This generally means that the driver is running, but it has lost communications with the hardware. Check the physical connection to the equipment"
         [] message = "ALREADY-LOGGED-IN" ->
            "The client already sent LOGIN for a UPS and can't do it again. There is presently a limit of one LOGIN record per connection"
         [] message = "INVALID-PASSWORD" ->
            "The client sent an invalid PASSWORD - perhaps an empty one"
         [] message = "ALREADY-SET-PASSWORD" ->
            "The client already set a PASSWORD and can't set another. This also should never happen with normal NUT clients"
         [] message = "INVALID-USERNAME" ->
            "The client sent an invalid USERNAME"
         [] message = "ALREADY-SET-USERNAME" ->
            "The client has already set a USERNAME, and can't set another. This should never happen with normal NUT clients"
         [] message = "USERNAME-REQUIRED" ->
            "The requested command requires a username for authentication, but the client hasn't set one"
         [] message = "PASSWORD-REQUIRED" ->
            "The requested command requires a passname for authentication, but the client hasn't set one"
         [] message = "UNKNOWN-COMMAND" ->
            "upsd doesn't recognize the requested command"
         [] message = "INVALID-VALUE" ->
            "The value specified in the request is not valid. This usually applies to a SET of an ENUM type which is using a value which is not in the list of allowed values"
         [] OTHER ->
            "Unknown error code",
     ctx |-> <<>>]

(***************************************************************************)
(*                         Bounds and the two builds                       *)
(***************************************************************************)

\* Operations the caller starts on one session.
MaxCalls == 2

\* Item lines upsd sends, over all the LIST replies of one caller operation.
MaxItems == 3

\* src/nut.go, or the session layer of src/unnamed/part_001.
Variants == {"nut.go", "part_001"}

(***************************************************************************)
(*                                  State                                  *)
(***************************************************************************)

VARIABLES
    variant,    \* which session layer is linked in
    upsd,       \* what the server has to say: its devices, variables, ...
    client,     \* the Client struct: Version and ProtocolVersion, and
                \* whether Connect has returned it to the caller
    conn,       \* the TCP connection: "open", "eof" (the server closed it)
                \* or "reset" (it broke)
    wire,       \* bytes the server sent that the client has not read
    inbox,      \* command lines the server received and has not answered
    stack,      \* the client's call stack, innermost call last
    ret,        \* what the call that returned last returned
    ups,        \* the UPS struct the running method's receiver points to
    crashed,    \* the program died of a run-time panic
    calls,      \* operations the caller has started
    quota,      \* item lines the server may still send in this operation
    log         \* the exchanges of this operation: each command line the
                \* client wrote or tried to, the bytes the server sent in
                \* reply, and the error SendCommand returned for it

vars == <<variant, upsd, client, conn, wire, inbox, stack, ret, ups, crashed,
          calls, quota, log>>

\* The Client struct, with the versions v and p.
NewClientStruct(v, p, connected) ==
    [Version |-> v, ProtocolVersion |-> p, connected |-> connected]

\* The Client of a session that is up, its versions left out of account.
SessionClient == NewClientStruct("", "", TRUE)

\* A UPS struct with only its name set, as NewUPS makes it.
NewUPSStruct(name) ==
    [Name |-> name, Description |-> "", Master |-> FALSE,
     NumberOfLogins |-> [neg |-> FALSE, mag |-> "0"],
     Clients |-> <<>>, Variables |-> <<>>, Commands |-> <<>>]

\* The zero Variable.
NewVariable ==
    [Name |-> "", Value |-> [type |-> "nil"], Type |-> "", Description |-> "",
     Writeable |-> FALSE, MaximumLength |-> [neg |-> FALSE, mag |-> "0"],
     OriginalType |-> ""]

\* The values an interface{} holds, by dynamic type.
StringValue(s) == [type |-> "string", s |-> s]
BoolValue(b) == [type |-> "bool", b |-> b]
Int64Value(n) == [type |-> "int64", neg |-> n.neg, mag |-> n.mag]
Float64Value(f) == [type |-> "float64", neg |-> f.neg, mant |-> f.mant, exp |-> f.exp]

\* A call's frame: the function, where in it the call stands, its arguments
\* a and b, and its locals.
Frame(fn, pc, a, b) ==
    [fn |-> fn, pc |-> pc, a |-> a, b |-> b, multi |-> FALSE,
     resp |-> <<>>, i |-> 0, acc |-> <<>>, v |-> NewVariable]

NoRet == [fn |-> "", val |-> <<>>, err |-> NoErr]

Top == stack[Len(stack)]

\* The running call is fn, at pc.
At(fn, pc) ==
    /\ ~crashed
    /\ stack # <<>>
    /\ Top.fn = fn
    /\ Top.pc = pc

\* The stack with the running call's frame replaced by f.
Goto(f) == [stack EXCEPT ![Len(stack)] = f]

\* The running call goes on as frame f and calls: the frames `callees` are
\* pushed, the innermost last.
Call(f, callees) ==
    /\ stack' = Goto(f) \o callees
    /\ ret' = NoRet
    /\ UNCHANGED crashed

\* The running call returns (val, err) to its caller.
Return(val, err) ==
    /\ stack' = SubSeq(stack, 1, Len(stack) - 1)
    /\ ret' = [fn |-> Top.fn, val |-> val, err |-> err]
    /\ UNCHANGED crashed

\* A run-time panic (an index or a slice bound out of range): the program dies.
Panic ==
    /\ crashed' = TRUE
    /\ UNCHANGED <<stack, ret>>

(***************************************************************************)
(*                          Transport and framing                          *)
(***************************************************************************)

\* Client.SendCommand up to its write: the command line and the end line.
\* The prefixes are tested on the line with its "\n" already appended.
SendCommandEnter(cmd) ==
    LET line == cmd \o "\n"
        endLine ==
            IF \/ HasPrefix(line, "USERNAME ")
               \/ HasPrefix(line, "PASSWORD ")
               \/ HasPrefix(line, "SET ")
               \/ HasPrefix(line, "HELP ")
               \/ HasPrefix(line, "VER ")
               \/ HasPrefix(line, "NETVER ")
            THEN "OK\n"
            ELSE "END " \o line
    IN  Frame("SendCommand", "write", line, endLine)

\* What a write on the connection can do: on an open connection it succeeds;
\* once the server has closed, the kernel may still accept it or refuse it;
\* on a broken connection it fails.
WriteOutcomes ==
    CASE conn = "open" -> {TRUE}
      [] conn = "eof" -> {TRUE, FALSE}
      [] conn = "reset" -> {FALSE}

\* An exchange that has begun, and the same once SendCommand has returned err.
Exchange(cmd) == [cmd |-> cmd, reply |-> "", done |-> FALSE, err |-> NoErr]
Done(x, err) == [x EXCEPT !.done = TRUE, !.err = err]

\* The error SendCommand returns when its write fails.
WriteError ==
    IF variant = "nut.go"
    THEN NewError("net", "write: broken pipe")
    ELSE Wrap(NewError("net", "write: broken pipe"), "fprint fail")

\* Client.SendCommand, fmt.Fprint(c.conn, cmd): the write, then the call of
\* ReadResponse(endLine, strings.HasPrefix(cmd, "LIST ")).
SendCommandWrite ==
    /\ At("SendCommand", "write")
    /\ \E written \in WriteOutcomes :
         IF written
         THEN /\ Call([Top EXCEPT !.pc = "read"],
                      <<[Frame("ReadResponse", "loop", Top.b, "")
                            EXCEPT !.multi = HasPrefix(Top.a, "LIST ")]>>)
              /\ inbox' = IF conn = "open" THEN Append(inbox, Top.a) ELSE inbox
              /\ log' = Append(log, Exchange(Top.a))
         ELSE /\ Return(<<>>, WriteError)
              /\ log' = Append(log, Done(Exchange(Top.a), WriteError))
              /\ UNCHANGED inbox
    /\ UNCHANGED <<variant, upsd, client, conn, wire, ups, calls, quota>>

\* The errors of a read on the connection.
EOF == NewError("io", "EOF")
ConnReset == NewError("net", "read: connection reset by peer")

\* bufio.Reader.ReadString('\n') can return: a whole line is there, or the
\* connection is at its end.  Otherwise the read blocks.
CanRead == Index(wire, "\n") > 0 \/ conn # "open"

\* bufio.Reader.ReadString('\n'): the bytes up to and including the first
\* "\n"; at the end of the stream the bytes that are left, with the error.
ReadString ==
    LET k == Index(wire, "\n")
    IN  IF k > 0
        THEN [line |-> SubSeq(wire, 1, k), err |-> NoErr,
              rest |-> SubSeq(wire, k + 1, Len(wire))]
        ELSE [line |-> wire, err |-> IF conn = "eof" THEN EOF ELSE ConnReset,
              rest |-> ""]

\* Whether ReadResponse gives up on the error of a read.
ReadFails(err) ==
    IF variant = "nut.go" THEN err # NoErr ELSE err # NoErr /\ err # EOF

\* The error ReadResponse returns for the error of a read.
ReadError(err) ==
    IF variant = "nut.go"
    THEN NewError("fmt", "error reading response: " \o err.msg)
    ELSE Wrap(err, "error reading response")

\* ReadBreak with the test of the end line lost: any line ends the response.
ReadBreakAnyLine(line, endLine, multiLineResponse) == TRUE

\* ReadBreak with the test of the end line turned round.
ReadBreakNotEnd(line, endLine, multiLineResponse) ==
    line # endLine \/ multiLineResponse = FALSE

\* Whether ReadResponse leaves its loop after this line.
ReadBreak(line, endLine, multiLineResponse) ==
    line = endLine \/ multiLineResponse = FALSE

\* CleanLines with the "\n" of the line left on.
CleanLinesUntrimmed(line) == Split(line, "\n")

\* What ReadResponse appends to its response for a line read.
CleanLines(line) == Split(TrimSuffix(line, "\n"), "\n")

\* Client.ReadResponse: one turn of its loop.  The bufio.Reader is made anew in
\* every call, so what it has buffered beyond the last line it handed out is
\* lost when the call returns: any prefix of the unread bytes.  (The frame's
\* i is 1 once a read of this call has met the end of the stream.)
ReadResponse ==
    /\ At("ReadResponse", "loop")
    /\ CanRead
    /\ LET r == ReadString
           response == IF Len(r.line) > 0 THEN Top.acc \o CleanLines(r.line) ELSE Top.acc
       IN  IF ReadFails(r.err)
           THEN /\ Return(<<>>, ReadError(r.err))
                /\ wire' = r.rest
           ELSE IF Len(r.line) > 0 /\ ReadBreak(r.line, Top.a, Top.multi)
           THEN /\ Return(response, NoErr)
                /\ \E k \in 0..Len(r.rest) : wire' = SubSeq(r.rest, k + 1, Len(r.rest))
           ELSE /\ stack' = Goto([Top EXCEPT !.acc = response,
                                             !.i = IF r.err = EOF THEN 1 ELSE @])
                /\ wire' = r.rest
                /\ UNCHANGED <<ret, crashed>>
    /\ UNCHANGED <<variant, upsd, client, conn, inbox, ups, calls, quota, log>>

\* ErrorCode with the index off by one: the token "ERR" itself.
ErrorCodeFirstToken(line) == Split(line, " ")[1]

\* The error code of an ERR line: strings.Split(resp[0], " ")[1].
ErrorCode(line) == Split(line, " ")[2]

\* What SendCommand returns once ReadResponse has returned (resp, err): the
\* error of the read; the error for the code when the first line begins with
\* "ERR "; or the response.
SendCommandResult(resp, err) ==
    IF err # NoErr
    THEN [val |-> <<>>,
          err |-> IF variant = "nut.go" THEN err ELSE Wrap(err, "read response fail")]
    ELSE IF HasPrefix(resp[1], "ERR ")
    THEN [val |-> <<>>,
          err |-> IF variant = "nut.go" THEN errorForMessage(ErrorCode(resp[1]))
                  ELSE Wrap(errorForMessage(ErrorCode(resp[1])), "NUT error")]
    ELSE [val |-> resp, err |-> NoErr]

\* Client.SendCommand once ReadResponse has returned.  (resp[0] of an empty
\* response would be out of range.)
SendCommandReturn ==
    /\ At("SendCommand", "read")
    /\ ret.fn = "ReadResponse"
    /\ IF ret.err = NoErr /\ Len(ret.val) = 0
       THEN Panic /\ UNCHANGED log
       ELSE LET r == SendCommandResult(ret.val, ret.err)
            IN  /\ Return(r.val, r.err)
                /\ log' = [log EXCEPT ![Len(log)] = Done(@, r.err)]
    /\ UNCHANGED <<variant, upsd, client, conn, wire, inbox, ups, calls, quota>>

(***************************************************************************)
(*                            The server, upsd                             *)
(***************************************************************************)

\* The lines, each with its "\n", as the bytes of one write.
RECURSIVE Join(_)
Join(lines) ==
    IF lines = <<>> THEN "" ELSE Head(lines) \o "\n" \o Join(Tail(lines))

\* What upsd can put after the echoed part of a reply line to cmd.
Payloads(cmd) ==
    CASE HasPrefix(cmd, "LIST UPS") -> upsd.ups
      [] HasPrefix(cmd, "LIST CLIENT ") -> upsd.clients
      [] HasPrefix(cmd, "LIST CMD ") -> upsd.cmds
      [] HasPrefix(cmd, "LIST VAR ") -> upsd.vars
      [] HasPrefix(cmd, "GET NUMLOGINS ") -> upsd.logins
      [] HasPrefix(cmd, "GET TYPE ") -> upsd.types
      [] HasPrefix(cmd, "GET ") -> upsd.descs
      [] OTHER -> upsd.acks

\* The reply lines of upsd to cmd: a LIST item is "<what> <args> <payload>",
\* a GET answer is "<what> <args> <payload>" for GET <what> <args>, and every
\* other answer is the payload alone.
ReplyLines(cmd) ==
    CASE HasPrefix(cmd, "LIST UPS") -> {"UPS " \o p : p \in Payloads(cmd)}
      [] HasPrefix(cmd, "LIST ") ->
            {TrimPrefix(cmd, "LIST ") \o " " \o p : p \in Payloads(cmd)}
      [] HasPrefix(cmd, "GET ") ->
            {TrimPrefix(cmd, "GET ") \o " " \o p : p \in Payloads(cmd)}
      [] OTHER -> Payloads(cmd)

ErrLines == {"ERR " \o code : code \in upsd.errs}

\* The sequences of at most n members of S.
SeqsUpTo(S, n) == UNION {[1..k -> S] : k \in 0..n}

\* A reply: the bytes, what becomes of the connection after them, and the
\* number of item lines among them.
Reply(bytes, then, items) == [bytes |-> bytes, then |-> then, items |-> items]

\* The replies to a LIST command: the items between a BEGIN line (which a
\* headless server may leave out) and the END line that echoes the command; the same cut
\* short, with the server closing or stalling, or ending in the middle of a
\* line; an ERR line and nothing more; or nothing but a broken connection.
ListReplies(cmd) ==
    LET begin == "BEGIN " \o cmd
        end == "END " \o cmd
        bodies == SeqsUpTo(ReplyLines(cmd), quota)
        heads == IF upsd.headless THEN {<<begin>>, <<>>} ELSE {<<begin>>}
    IN  {Reply(Join(h \o b \o <<end>>), "open", Len(b)) : h \in heads, b \in bodies}
        \cup {Reply(Join(<<begin>> \o b), t, Len(b)) :
                b \in bodies, t \in {"eof", "open"}}
        \cup {Reply(Join(<<begin>> \o b) \o end, "eof", Len(b)) : b \in bodies}
        \cup {Reply(l \o "\n", "open", 0) : l \in ErrLines}
        \cup {Reply("", "reset", 0)}

\* The replies to any other command: one line, an answer or an ERR line; the
\* line without its end, the server closing; or nothing but a closed or
\* broken connection.  After its answer to LOGOUT the server may close.
LineReplies(cmd) ==
    {Reply(l \o "\n", "open", 0) : l \in ReplyLines(cmd) \cup ErrLines}
    \cup {Reply(l, "eof", 0) : l \in ReplyLines(cmd)}
    \cup {Reply("", t, 0) : t \in {"eof", "reset"}}
    \cup (IF cmd = "LOGOUT"
          THEN {Reply(l \o "\n", "eof", 0) : l \in ReplyLines(cmd)}
          ELSE {})

Replies(cmd) ==
    IF HasPrefix(cmd, "LIST ") THEN ListReplies(cmd) ELSE LineReplies(cmd)

\* upsd answers the command it received: one reply, written at once.
ServerReply ==
    /\ conn = "open"
    /\ inbox # <<>>
    /\ \E r \in Replies(TrimSuffix(Head(inbox), "\n")) :
         /\ wire' = IF r.then = "reset" THEN "" ELSE wire \o r.bytes
         /\ conn' = r.then
         /\ log' = [log EXCEPT ![Len(log)].reply = r.bytes]
         /\ quota' = quota - r.items
    /\ inbox' = Tail(inbox)
    /\ UNCHANGED <<variant, upsd, client, stack, ret, ups, crashed, calls>>

\* The data of a server with two devices.
SessionUpsd ==
    [ups |-> {"a \"D\"", "b  \"E\""},
     clients |-> {"h"},
     cmds |-> {"t"},
     vars |-> {"x \"1.5\""},
     logins |-> {"1", "x"},
     types |-> {"RW STRING:3"},
     descs |-> {"\"T\""},
     acks |-> {"OK", "x y"},
     errs |-> {"ACCESS-DENIED", "BOGUS x"},
     headless |-> FALSE]

(***************************************************************************)
(*                         Session: nut.go / part_001                      *)
(***************************************************************************)

\* What the steps of the client above the transport leave alone.
env == <<variant, upsd, client, conn, wire, inbox, calls, quota, log>>

\* AuthenticateEnter with the password sent in the place of the username.
AuthenticateEnterPassword(username, password) ==
    <<Frame("Authenticate", "username", username, password),
      SendCommandEnter("PASSWORD " \o password)>>

\* Client.Authenticate(username, password), called.
AuthenticateEnter(username, password) ==
    <<Frame("Authenticate", "username", username, password),
      SendCommandEnter("USERNAME " \o username)>>

\* Client.Authenticate: after USERNAME, PASSWORD; after both, the verdict.
Authenticate ==
    /\ stack # <<>>
    /\ Top.fn = "Authenticate"
    /\ ~crashed
    /\ ret.fn = "SendCommand"
    /\ IF Top.pc = "username"
       THEN IF ret.err # NoErr
            THEN Return(FALSE, IF variant = "nut.go" THEN ret.err
                               ELSE Wrap(ret.err, "send command username fail"))
            ELSE Call([Top EXCEPT !.pc = "password", !.resp = ret.val],
                      <<SendCommandEnter("PASSWORD " \o Top.b)>>)
       ELSE IF ret.err # NoErr
            THEN Return(FALSE, IF variant = "nut.go" THEN ret.err
                               ELSE Wrap(ret.err, "send command password fail"))
            ELSE Return(Top.resp[1] = "OK" /\ ret.val[1] = "OK", NoErr)
    /\ UNCHANGED <<env, ups>>

\* Client.GetUPSList, called.
GetUPSListEnter ==
    <<Frame("GetUPSList", "resp", "", ""), SendCommandEnter("LIST UPS")>>

\* UPSName with the space before the quote left on.
UPSNameUntrimmed(line) == Split(TrimPrefix(line, "UPS "), "\"")[1]

\* The name GetUPSList takes from a line of the LIST UPS response.
UPSName(line) == TrimSuffix(Split(TrimPrefix(line, "UPS "), "\"")[1], " ")

\* What GetUPSList returns beside an error of NewUPS: nut.go returns upsList,
\* the devices built so far; part_001 returns nil.
GetUPSListAbort(upsList) == IF variant = "nut.go" THEN upsList ELSE <<>>

\* Client.GetUPSList, its loop from the line after f.i: NewUPS for the next
\* line that begins with "UPS ", or the end.
GetUPSListLoop(f) ==
    LET rest == {j \in (f.i + 1)..Len(f.resp) : HasPrefix(f.resp[j], "UPS ")}
    IN  IF rest = {}
        THEN Return(f.acc, NoErr)
        ELSE LET j == CHOOSE j \in rest : \A k \in rest : j <= k
             IN  Call([f EXCEPT !.pc = "ups", !.i = j],
                      <<Frame("NewUPS", "start", UPSName(f.resp[j]), "")>>)

\* Client.GetUPSList: the LIST UPS response, then one NewUPS after the other.
GetUPSList ==
    /\ stack # <<>>
    /\ Top.fn = "GetUPSList"
    /\ ~crashed
    /\ IF Top.pc = "resp"
       THEN /\ ret.fn = "SendCommand"
            /\ IF ret.err # NoErr
               THEN Return(<<>>, IF variant = "nut.go" THEN ret.err
                                 ELSE Wrap(ret.err, "send command ups list fail"))
               ELSE GetUPSListLoop([Top EXCEPT !.resp = ret.val])
       ELSE /\ ret.fn = "NewUPS"
            /\ IF ret.err # NoErr
               THEN Return(GetUPSListAbort(Top.acc),
                           IF variant = "nut.go" THEN ret.err
                           ELSE Wrap(ret.err, "prepare ups list fail"))
               ELSE GetUPSListLoop([Top EXCEPT !.acc = Append(@, ret.val)])
    /\ UNCHANGED <<env, ups>>

(***************************************************************************)
(*                             Devices: ups.go                             *)
(***************************************************************************)

\* resp[1 : len(resp)-1] is in range.
InnerInRange(resp) == Len(resp) >= 2

\* resp[1 : len(resp)-1]: the lines between the first and the last.
Inner(resp) == SubSeq(resp, 2, Len(resp) - 1)

\* strconv.Atoi's error.
AtoiError(r) == NewError("strconv", "strconv.Atoi: " \o r.err)

MinusOne == [neg |-> TRUE, mag |-> "1"]
Zero == [neg |-> FALSE, mag |-> "0"]

\* UPS.GetClients, called.
GetClientsEnter(u) ==
    <<Frame("GetClients", "resp", "", ""), SendCommandEnter("LIST CLIENT " \o u.Name)>>

\* UPS.GetClients: the clients, one for each line between the first and last.
GetClients ==
    /\ At("GetClients", "resp")
    /\ ret.fn = "SendCommand"
    /\ LET resp == ret.val
           linePrefix == "CLIENT " \o ups.Name \o " "
           clientsList == [k \in 1..Len(Inner(resp)) |->
                              TrimPrefix(Inner(resp)[k], linePrefix)]
       IN  IF ret.err # NoErr
           THEN Return(<<>>, ret.err) /\ UNCHANGED ups
           ELSE IF ~InnerInRange(resp)
           THEN Panic /\ UNCHANGED ups
           ELSE /\ ups' = [ups EXCEPT !.Clients = clientsList]
                /\ Return(clientsList, NoErr)
    /\ UNCHANGED env

\* UPS.GetDescription, called.
GetDescriptionEnter(u) ==
    <<Frame("GetDescription", "resp", "", ""), SendCommandEnter("GET UPSDESC " \o u.Name)>>

\* UPS.GetDescription
GetDescription ==
    /\ At("GetDescription", "resp")
    /\ ret.fn = "SendCommand"
    /\ LET description ==
               TrimPrefix(ReplaceAllEmpty(ret.val[1], "\""), "UPSDESC " \o ups.Name \o " ")
       IN  IF ret.err # NoErr
           THEN Return("", ret.err) /\ UNCHANGED ups
           ELSE /\ ups' = [ups EXCEPT !.Description = description]
                /\ Return(description, NoErr)
    /\ UNCHANGED env

\* UPS.GetNumberOfLogins, called.
GetNumberOfLoginsEnter(u) ==
    <<Frame("GetNumberOfLogins", "resp", "", ""),
      SendCommandEnter("GET NUMLOGINS " \o u.Name)>>

\* UPS.GetNumberOfLogins
GetNumberOfLogins ==
    /\ At("GetNumberOfLogins", "resp")
    /\ ret.fn = "SendCommand"
    /\ LET atoi == Atoi(TrimPrefix(ret.val[1], "NUMLOGINS " \o ups.Name \o " "))
       IN  IF ret.err # NoErr
           THEN Return(Zero, ret.err) /\ UNCHANGED ups
           ELSE IF ~atoi.ok
           THEN Return(Zero, AtoiError(atoi)) /\ UNCHANGED ups
           ELSE /\ ups' = [ups EXCEPT !.NumberOfLogins = [neg |-> atoi.neg, mag |-> atoi.mag]]
                /\ Return([neg |-> atoi.neg, mag |-> atoi.mag], NoErr)
    /\ UNCHANGED env

\* UPS.GetCommandDescription(commandName), called.
GetCommandDescriptionEnter(u, commandName) ==
    <<Frame("GetCommandDescription", "resp", commandName, ""),
      SendCommandEnter("GET CMDDESC " \o u.Name \o " " \o commandName)>>

\* UPS.GetCommandDescription
GetCommandDescription ==
    /\ At("GetCommandDescription", "resp")
    /\ ret.fn = "SendCommand"
    /\ LET trimmedLine ==
               TrimPrefix(ret.val[1], "CMDDESC " \o ups.Name \o " " \o Top.a \o " ")
       IN  IF ret.err # NoErr
           THEN Return("", ret.err)
           ELSE Return(ReplaceAllEmpty(trimmedLine, "\""), NoErr)
    /\ UNCHANGED <<env, ups>>

\* UPS.GetCommands, called.
GetCommandsEnter(u) ==
    <<Frame("GetCommands", "resp", "", ""), SendCommandEnter("LIST CMD " \o u.Name)>>

\* The name of the command a line of the LIST CMD response lists.
CommandName(line) == TrimPrefix(line, "CMD " \o ups.Name \o " ")

\* UPS.GetCommands, its loop after f.i lines: the description of the next
\* command, or the end, which sets u.Commands.
GetCommandsLoop(f) ==
    IF f.i = Len(f.resp)
    THEN /\ ups' = [ups EXCEPT !.Commands = f.acc]
         /\ Return(f.acc, NoErr)
    ELSE /\ Call([f EXCEPT !.pc = "desc", !.i = f.i + 1],
                 GetCommandDescriptionEnter(ups, CommandName(f.resp[f.i + 1])))
         /\ UNCHANGED ups

\* UPS.GetCommands: the LIST CMD response, then a description for each line
\* between its first and last.
GetCommands ==
    /\ stack # <<>>
    /\ Top.fn = "GetCommands"
    /\ ~crashed
    /\ IF Top.pc = "resp"
       THEN /\ ret.fn = "SendCommand"
            /\ IF ret.err # NoErr
               THEN Return(<<>>, ret.err) /\ UNCHANGED ups
               ELSE IF ~InnerInRange(ret.val)
               THEN Panic /\ UNCHANGED ups
               ELSE GetCommandsLoop([Top EXCEPT !.resp = Inner(ret.val)])
       ELSE /\ ret.fn = "GetCommandDescription"
            /\ IF ret.err # NoErr
               THEN Return(Top.acc, ret.err) /\ UNCHANGED ups
               ELSE GetCommandsLoop(
                        [Top EXCEPT !.acc = Append(@, [Name |-> CommandName(Top.resp[Top.i]),
                                                       Description |-> ret.val])])
    /\ UNCHANGED env

\* UPS.GetVariableDescription(variableName), called.
GetVariableDescriptionEnter(u, variableName) ==
    <<Frame("GetVariableDescription", "resp", variableName, ""),
      SendCommandEnter("GET DESC " \o u.Name \o " " \o variableName)>>

\* UPS.GetVariableDescription
GetVariableDescription ==
    /\ At("GetVariableDescription", "resp")
    /\ ret.fn = "SendCommand"
    /\ LET trimmedLine ==
               TrimPrefix(ret.val[1], "DESC " \o ups.Name \o " " \o Top.a \o " ")
       IN  IF ret.err # NoErr
           THEN Return("", ret.err)
           ELSE Return(ReplaceAllEmpty(trimmedLine, "\""), NoErr)
    /\ UNCHANGED <<env, ups>>

\* UPS.GetVariableType(variableName), called.
GetVariableTypeEnter(u, variableName) ==
    <<Frame("GetVariableType", "resp", variableName, ""),
      SendCommandEnter("GET TYPE " \o u.Name \o " " \o variableName)>>

\* TypeResult with the writeability lost.
TypeResultReadOnly(varType, writeable, maximumLength) ==
    [varType |-> varType, writeable |-> FALSE, maximumLength |-> maximumLength]

\* What GetVariableType returns beside its error.
TypeResult(varType, writeable, maximumLength) ==
    [varType |-> varType, writeable |-> writeable, maximumLength |-> maximumLength]

\* UPS.GetVariableType: the type, the writeability and the maximum length
\* from the line "TYPE <ups> <variable> [RW] <type>[:<length>]".
GetVariableType ==
    /\ At("GetVariableType", "resp")
    /\ ret.fn = "SendCommand"
    /\ LET trimmedLine ==
               TrimPrefix(ret.val[1], "TYPE " \o ups.Name \o " " \o Top.a \o " ")
           splitLine == Split(trimmedLine, " ")
           writeable == splitLine[1] = "RW"
           splitType == Split(splitLine[2], ":")
           atoi == Atoi(splitType[2])
       IN  IF ret.err # NoErr
           THEN Return(TypeResult("UNKNOWN", FALSE, MinusOne), ret.err)
           ELSE IF ~writeable
           THEN Return(TypeResult(splitLine[1], FALSE, Zero), NoErr)
           ELSE IF Len(splitLine) < 2
           THEN Panic
           ELSE IF ~HasPrefix(splitLine[2], "STRING:")
           THEN Return(TypeResult(splitLine[2], TRUE, Zero), NoErr)
           ELSE IF ~atoi.ok
           THEN Return(TypeResult(splitType[1], TRUE, MinusOne), AtoiError(atoi))
           ELSE Return(TypeResult(splitType[1], TRUE, [neg |-> atoi.neg, mag |-> atoi.mag]),
                       NoErr)
    /\ UNCHANGED <<env, ups>>

\* UPS.GetVariables, called.
GetVariablesEnter(u) ==
    <<Frame("GetVariables", "resp", "", ""), SendCommandEnter("LIST VAR " \o u.Name)>>

\* The quoted pieces of a line of the LIST VAR response.
VarSplitLine(line) == Split(TrimPrefix(line, "VAR " \o ups.Name \o " "), "\"")

\* VarValue without the two words that stand for booleans.
VarValueRaw(raw) == StringValue(raw)

\* UPS.GetVariables, the value of a new Variable: the raw string between the
\* quotes, or the boolean that "enabled" and "disabled" stand for.
VarValue(raw) ==
    IF raw = "disabled" THEN BoolValue(FALSE)
    ELSE IF raw = "enabled" THEN BoolValue(TRUE)
    ELSE StringValue(raw)

\* VarCoerce with newVar.OriginalType = varType left out: the declared type
\* of a coerced value is lost.
VarCoerceUntagged(newVar, raw, t) ==
    LET typed == [newVar EXCEPT !.Type = t.varType, !.Writeable = t.writeable,
                                !.MaximumLength = t.maximumLength]
        float == ParseFloat(raw)
        int == ParseInt(raw)
    IN  IF t.varType = "UNKNOWN" \/ t.varType = "NUMBER"
        THEN IF Count(raw, ".") = 1
             THEN IF float.ok
                  THEN [typed EXCEPT !.Value = Float64Value(float), !.Type = "FLOAT_64"]
                  ELSE typed
             ELSE IF int.ok
                  THEN [typed EXCEPT !.Value = Int64Value(int), !.Type = "INTEGER"]
                  ELSE typed
        ELSE typed

\* VarCoerce without the count of the "."s: a float whenever the raw string
\* parses as one.
VarCoerceFloatFirst(newVar, raw, t) ==
    LET typed == [newVar EXCEPT !.Type = t.varType, !.Writeable = t.writeable,
                                !.MaximumLength = t.maximumLength]
        float == ParseFloat(raw)
        int == ParseInt(raw)
    IN  IF t.varType = "UNKNOWN" \/ t.varType = "NUMBER"
        THEN IF float.ok
             THEN [typed EXCEPT !.Value = Float64Value(float), !.Type = "FLOAT_64",
                                !.OriginalType = t.varType]
             ELSE IF int.ok
             THEN [typed EXCEPT !.Value = Int64Value(int), !.Type = "INTEGER",
                                !.OriginalType = t.varType]
             ELSE typed
        ELSE typed

\* UPS.GetVariables, the type step: the Variable takes what GetVariableType
\* found, and an UNKNOWN or NUMBER whose raw string parses becomes a FLOAT_64
\* (one ".") or an INTEGER, with the type it had as its OriginalType.
VarCoerce(newVar, raw, t) ==
    LET typed == [newVar EXCEPT !.Type = t.varType, !.Writeable = t.writeable,
                                !.MaximumLength = t.maximumLength]
        float == ParseFloat(raw)
        int == ParseInt(raw)
    IN  IF t.varType = "UNKNOWN" \/ t.varType = "NUMBER"
        THEN IF Count(raw, ".") = 1
             THEN IF float.ok
                  THEN [typed EXCEPT !.Value = Float64Value(float), !.Type = "FLOAT_64",
                                     !.OriginalType = t.varType]
                  ELSE typed
             ELSE IF int.ok
                  THEN [typed EXCEPT !.Value = Int64Value(int), !.Type = "INTEGER",
                                     !.OriginalType = t.varType]
                  ELSE typed
        ELSE typed

\* GetVariablesLoop with u.Variables = vars inside the loop: the device takes
\* the variables as they are parsed.
GetVariablesLoopEager(f) ==
    /\ ups' = [ups EXCEPT !.Variables = f.acc]
    /\ IF f.i = Len(f.resp)
       THEN Return(f.acc, NoErr)
       ELSE LET splitLine == VarSplitLine(f.resp[f.i + 1])
                name == TrimSuffix(splitLine[1], " ")
            IN  IF Len(splitLine) < 2
                THEN Panic
                ELSE Call([f EXCEPT !.pc = "desc", !.i = f.i + 1, !.b = splitLine[2],
                                    !.v = [NewVariable EXCEPT !.Name = name,
                                                              !.Value = VarValue(splitLine[2])]],
                          GetVariableDescriptionEnter(ups, name))

\* UPS.GetVariables, its loop after f.i lines: the name and value of the next
\* variable and the call for its description, or the end, which sets
\* u.Variables.  f.b keeps splitLine[1], the raw value.
GetVariablesLoop(f) ==
    IF f.i = Len(f.resp)
    THEN /\ ups' = [ups EXCEPT !.Variables = f.acc]
         /\ Return(f.acc, NoErr)
    ELSE LET splitLine == VarSplitLine(f.resp[f.i + 1])
             name == TrimSuffix(splitLine[1], " ")
         IN  /\ IF Len(splitLine) < 2
                THEN Panic
                ELSE Call([f EXCEPT !.pc = "desc", !.i = f.i + 1, !.b = splitLine[2],
                                    !.v = [NewVariable EXCEPT !.Name = name,
                                                              !.Value = VarValue(splitLine[2])]],
                          GetVariableDescriptionEnter(ups, name))
             /\ UNCHANGED ups

\* UPS.GetVariables: the LIST VAR response, then for each line between its
\* first and last the description, the type, and the coercion of the value.
GetVariables ==
    /\ stack # <<>>
    /\ Top.fn = "GetVariables"
    /\ ~crashed
    /\ CASE Top.pc = "resp" ->
            /\ ret.fn = "SendCommand"
            /\ IF ret.err # NoErr
               THEN Return(<<>>, ret.err) /\ UNCHANGED ups
               ELSE IF ~InnerInRange(ret.val)
               THEN Panic /\ UNCHANGED ups
               ELSE GetVariablesLoop([Top EXCEPT !.resp = Inner(ret.val)])
         [] Top.pc = "desc" ->
            /\ ret.fn = "GetVariableDescription"
            /\ IF ret.err # NoErr
               THEN Return(Top.acc, ret.err)
               ELSE Call([Top EXCEPT !.pc = "type", !.v.Description = ret.val],
                         GetVariableTypeEnter(ups, Top.v.Name))
            /\ UNCHANGED ups
         [] Top.pc = "type" ->
            /\ ret.fn = "GetVariableType"
            /\ IF ret.err # NoErr
               THEN Return(Top.acc, ret.err) /\ UNCHANGED ups
               ELSE GetVariablesLoop(
                        [Top EXCEPT !.acc = Append(@, VarCoerce(Top.v, Top.b, ret.val))])
    /\ UNCHANGED env

\* UPS.CheckIfMaster, called.
CheckIfMasterEnter(u) ==
    <<Frame("CheckIfMaster", "resp", "", ""), SendCommandEnter("MASTER " \o u.Name)>>

\* MasterGranted with any line that begins with "OK" taken for the "OK".
MasterGrantedPrefix(resp) == HasPrefix(resp[1], "OK")

\* UPS.CheckIfMaster, its test of the response: resp[0] == "OK".
MasterGranted(resp) == resp[1] = "OK"

\* UPS.CheckIfMaster: true, and u.Master set, on the line "OK".
CheckIfMaster ==
    /\ At("CheckIfMaster", "resp")
    /\ ret.fn = "SendCommand"
    /\ IF ret.err # NoErr
       THEN Return(FALSE, ret.err) /\ UNCHANGED ups
       ELSE IF MasterGranted(ret.val)
       THEN /\ ups' = [ups EXCEPT !.Master = TRUE]
            /\ Return(TRUE, NoErr)
       ELSE Return(FALSE, NoErr) /\ UNCHANGED ups
    /\ UNCHANGED env

\* UPS.ForceShutdown, called.
ForceShutdownEnter(u) ==
    <<Frame("ForceShutdown", "resp", "", ""), SendCommandEnter("FSD " \o u.Name)>>

\* ShutdownSet with any line that begins with "OK" taken for "OK FSD-SET".
ShutdownSetPrefix(resp) == HasPrefix(resp[1], "OK")

\* UPS.ForceShutdown, its test of the response: resp[0] == "OK FSD-SET".
ShutdownSet(resp) == resp[1] = "OK FSD-SET"

\* UPS.ForceShutdown: true on the line "OK FSD-SET".
ForceShutdown ==
    /\ At("ForceShutdown", "resp")
    /\ ret.fn = "SendCommand"
    /\ IF ret.err # NoErr
       THEN Return(FALSE, ret.err)
       ELSE Return(ShutdownSet(ret.val), NoErr)
    /\ UNCHANGED <<env, ups>>

\* UPS.SetVariable(variableName, value), called.
SetVariableEnter(u, variableName, value) ==
    <<Frame("SetVariable", "resp", variableName, value),
      SendCommandEnter("SET VAR " \o u.Name \o " " \o variableName
                       \o " \"" \o value \o "\"")>>

\* VariableSet with any line that begins with "OK" taken for the "OK".
VariableSetPrefix(resp) == HasPrefix(resp[1], "OK")

\* UPS.SetVariable, its test of the response: resp[0] == "OK".
VariableSet(resp) == resp[1] = "OK"

\* UPS.SetVariable: true on the line "OK".  It writes no field of the UPS.
SetVariable ==
    /\ At("SetVariable", "resp")
    /\ ret.fn = "SendCommand"
    /\ IF ret.err # NoErr
       THEN Return(FALSE, ret.err)
       ELSE Return(VariableSet(ret.val), NoErr)
    /\ UNCHANGED <<env, ups>>

\* UPS.SendCommand(commandName), called.
UPSSendCommandEnter(u, commandName) ==
    <<Frame("UPS.SendCommand", "resp", commandName, ""),
      SendCommandEnter("INSTCMD " \o u.Name \o " " \o commandName)>>

\* UPS.SendCommand, its test of the response: resp[0] == "OK".
CommandDone(resp) == resp[1] = "OK"

\* UPS.SendCommand: true on the line "OK".  It writes no field of the UPS.
UPSSendCommand ==
    /\ At("UPS.SendCommand", "resp")
    /\ ret.fn = "SendCommand"
    /\ IF ret.err # NoErr
       THEN Return(FALSE, ret.err)
       ELSE Return(CommandDone(ret.val), NoErr)
    /\ UNCHANGED <<env, ups>>

\* NewUPSOrder with the description and the logins changing places.
NewUPSOrderSwapped ==
    <<"GetClients", "GetCommands", "GetNumberOfLogins", "GetDescription", "GetVariables">>

\* The fetches of NewUPS, in its order.
NewUPSOrder ==
    <<"GetClients", "GetCommands", "GetDescription", "GetNumberOfLogins", "GetVariables">>

\* The call of the k-th fetch of NewUPS on the struct u.
NewUPSFetch(k, u) ==
    CASE NewUPSOrder[k] = "GetClients" -> GetClientsEnter(u)
      [] NewUPSOrder[k] = "GetCommands" -> GetCommandsEnter(u)
      [] NewUPSOrder[k] = "GetDescription" -> GetDescriptionEnter(u)
      [] NewUPSOrder[k] = "GetNumberOfLogins" -> GetNumberOfLoginsEnter(u)
      [] NewUPSOrder[k] = "GetVariables" -> GetVariablesEnter(u)

\* NewUPS(name, client): a struct with the name, then the fetches one after
\* the other; the first error ends it, and the struct is returned as it is.
NewUPS ==
    /\ stack # <<>>
    /\ Top.fn = "NewUPS"
    /\ ~crashed
    /\ IF Top.pc = "start"
       THEN /\ ups' = NewUPSStruct(Top.a)
            /\ Call([Top EXCEPT !.pc = "fetch", !.i = 1],
                    NewUPSFetch(1, NewUPSStruct(Top.a)))
       ELSE /\ ret.fn = NewUPSOrder[Top.i]
            /\ IF ret.err # NoErr \/ Top.i = Len(NewUPSOrder)
               THEN Return(ups, ret.err)
               ELSE Call([Top EXCEPT !.i = Top.i + 1], NewUPSFetch(Top.i + 1, ups))
            /\ UNCHANGED ups
    /\ UNCHANGED env

(***************************************************************************)
(*          Connecting, the versions, HELP and LOGOUT: nut.go / part_001    *)
(***************************************************************************)

\* Client.Help, called.
HelpEnter == <<Frame("Help", "resp", "", ""), SendCommandEnter("HELP")>>

\* Client.Help.  nut.go returns helpResp[0] whatever err is, and the response
\* of a failed SendCommand is empty; part_001 tests err first.
Help ==
    /\ At("Help", "resp")
    /\ ret.fn = "SendCommand"
    /\ IF variant = "nut.go"
       THEN IF Len(ret.val) = 0 THEN Panic ELSE Return(ret.val[1], ret.err)
       ELSE IF ret.err # NoErr \/ Len(ret.val) < 1
       THEN Return("", Wrap(ret.err, "send command help fail"))
       ELSE Return(ret.val[1], NoErr)
    /\ UNCHANGED <<env, ups>>

\* Client.GetVersion, called.
GetVersionEnter == <<Frame("GetVersion", "resp", "", ""), SendCommandEnter("VER")>>

\* Client.GetVersion.  nut.go stores versionResponse[0] in c.Version itself
\* and returns it whatever err is; part_001 tests err first and stores nothing.
GetVersion ==
    /\ At("GetVersion", "resp")
    /\ ret.fn = "SendCommand"
    /\ IF variant = "nut.go"
       THEN IF Len(ret.val) = 0
            THEN Panic /\ UNCHANGED client
            ELSE /\ client' = [client EXCEPT !.Version = ret.val[1]]
                 /\ Return(ret.val[1], ret.err)
       ELSE /\ IF ret.err # NoErr \/ Len(ret.val) < 1
               THEN Return("", Wrap(ret.err, "send command var fail"))
               ELSE Return(ret.val[1], NoErr)
            /\ UNCHANGED client
    /\ UNCHANGED <<variant, upsd, conn, wire, inbox, calls, quota, log, ups>>

\* Client.GetNetworkProtocolVersion, called.
GetNetworkProtocolVersionEnter ==
    <<Frame("GetNetworkProtocolVersion", "resp", "", ""), SendCommandEnter("NETVER")>>

\* Client.GetNetworkProtocolVersion, as GetVersion with c.ProtocolVersion.
GetNetworkProtocolVersion ==
    /\ At("GetNetworkProtocolVersion", "resp")
    /\ ret.fn = "SendCommand"
    /\ IF variant = "nut.go"
       THEN IF Len(ret.val) = 0
            THEN Panic /\ UNCHANGED client
            ELSE /\ client' = [client EXCEPT !.ProtocolVersion = ret.val[1]]
                 /\ Return(ret.val[1], ret.err)
       ELSE /\ IF ret.err # NoErr \/ Len(ret.val) < 1
               THEN Return("", Wrap(ret.err, "send command netver fail"))
               ELSE Return(ret.val[1], NoErr)
            /\ UNCHANGED client
    /\ UNCHANGED <<variant, upsd, conn, wire, inbox, calls, quota, log, ups>>

\* Client.Disconnect, called.
DisconnectEnter == <<Frame("Disconnect", "resp", "", ""), SendCommandEnter("LOGOUT")>>

\* SaidGoodbye with any line that begins with "OK" or "Goodbye" taken for a
\* farewell.
SaidGoodbyePrefix(resp) == HasPrefix(resp[1], "OK") \/ HasPrefix(resp[1], "Goodbye")

\* Client.Disconnect, its test of the response: the two farewells.
SaidGoodbye(resp) == resp[1] = "OK Goodbye" \/ resp[1] = "Goodbye..."

\* Client.Disconnect: true on a farewell; false, with the error, on an error.
Disconnect ==
    /\ At("Disconnect", "resp")
    /\ ret.fn = "SendCommand"
    /\ IF ret.err # NoErr
       THEN Return(FALSE, IF variant = "nut.go" THEN ret.err
                          ELSE Wrap(ret.err, "send command fail"))
       ELSE Return(SaidGoodbye(ret.val), NoErr)
    /\ UNCHANGED <<env, ups>>

\* The error of a dial that fails.
DialError ==
    IF variant = "nut.go"
    THEN NewError("net", "dial tcp: connection refused")
    ELSE Wrap(NewError("net", "dial tcp: connection refused"), "dial context fail")

\* ConnectOrder with NETVER asked before VER.
ConnectOrderSwapped == <<"GetNetworkProtocolVersion", "GetVersion">>

\* The two calls of Connect / NewClient on the new Client, in their order.
ConnectOrder == <<"GetVersion", "GetNetworkProtocolVersion">>

\* The call of the k-th of them.
ConnectFetch(k) ==
    IF ConnectOrder[k] = "GetVersion"
    THEN GetVersionEnter
    ELSE GetNetworkProtocolVersionEnter

\* The Client struct c with the result s of the call fn stored (part_001:
\* client.Version, err = client.GetVersion(), and the like).
ConnectStore(c, fn, s) ==
    IF fn = "GetVersion"
    THEN [c EXCEPT !.Version = s]
    ELSE [c EXCEPT !.ProtocolVersion = s]

\* The text part_001 wraps the error of the call fn in.
ConnectFail(fn) ==
    IF fn = "GetVersion" THEN "get version fail" ELSE "get network protocol version fail"

\* Connect (nut.go) / NewClient (part_001): the dial, which makes a new
\* connection or fails; then GetVersion and GetNetworkProtocolVersion on the
\* new Client.  nut.go drops what the two return and returns the Client with
\* a nil error; part_001 stores their results and returns their errors.
Connect ==
    /\ stack # <<>>
    /\ Top.fn = "Connect"
    /\ ~crashed
    /\ IF Top.pc = "dial"
       THEN \E dialed \in BOOLEAN :
              IF dialed
              THEN /\ conn' = "open"
                   /\ wire' = ""
                   /\ inbox' = <<>>
                   /\ client' = NewClientStruct("", "", FALSE)
                   /\ Call([Top EXCEPT !.pc = "fetch", !.i = 1], ConnectFetch(1))
              ELSE /\ Return(NewClientStruct("", "", FALSE), DialError)
                   /\ UNCHANGED <<conn, wire, inbox, client>>
       ELSE /\ ret.fn = ConnectOrder[Top.i]
            /\ LET stored == IF variant = "nut.go" THEN client
                             ELSE ConnectStore(client, ret.fn, ret.val)
               IN  IF variant # "nut.go" /\ ret.err # NoErr
                   THEN /\ Return(NewClientStruct("", "", FALSE),
                                  Wrap(ret.err, ConnectFail(ret.fn)))
                        /\ UNCHANGED client
                   ELSE IF Top.i = Len(ConnectOrder)
                   THEN /\ client' = [stored EXCEPT !.connected = TRUE]
                        /\ Return([stored EXCEPT !.connected = TRUE], NoErr)
                   ELSE /\ client' = stored
                        /\ Call([Top EXCEPT !.i = Top.i + 1], ConnectFetch(Top.i + 1))
            /\ UNCHANGED <<conn, wire, inbox>>
    /\ UNCHANGED <<variant, upsd, calls, quota, log, ups>>

(***************************************************************************)
(*                               The caller                                *)
(***************************************************************************)

\* The caller may start an operation: none is running.
Idle ==
    /\ ~crashed
    /\ stack = <<>>
    /\ calls < MaxCalls

\* The caller starts an operation with the frames `frames`.
Start(frames) ==
    /\ stack' = frames
    /\ ret' = NoRet
    /\ calls' = calls + 1
    /\ quota' = MaxItems
    /\ log' = <<>>
    /\ ups' = NewUPSStruct("")
    /\ UNCHANGED <<variant, upsd, client, conn, wire, inbox, crashed>>

\* The commands the caller sends with Client.SendCommand itself.
CallerCommands == {"VER", "USERNAME u", "LIST UPS"}

CallSendCommand ==
    /\ Idle
    /\ \E cmd \in CallerCommands : Start(<<SendCommandEnter(cmd)>>)

CallAuthenticate ==
    /\ Idle
    /\ Start(AuthenticateEnter("u", "p"))

CallGetUPSList ==
    /\ Idle
    /\ Start(GetUPSListEnter)

Init ==
    /\ variant \in Variants
    /\ upsd = SessionUpsd
    /\ client = SessionClient
    /\ conn = "open"
    /\ wire = ""
    /\ inbox = <<>>
    /\ stack = <<>>
    /\ ret = NoRet
    /\ ups = NewUPSStruct("")
    /\ crashed = FALSE
    /\ calls = 0
    /\ quota = 0
    /\ log = <<>>

Next ==
    \/ CallSendCommand
    \/ CallAuthenticate
    \/ CallGetUPSList
    \/ SendCommandWrite
    \/ ReadResponse
    \/ SendCommandReturn
    \/ Authenticate
    \/ GetUPSList
    \/ NewUPS
    \/ GetClients
    \/ GetCommands
    \/ GetCommandDescription
    \/ GetDescription
    \/ GetNumberOfLogins
    \/ GetVariables
    \/ GetVariableDescription
    \/ GetVariableType
    \/ ServerReply

Spec == Init /\ [][Next]_vars

(***************************************************************************)
(*        One device, one variable: GetVariables on every raw value        *)
(***************************************************************************)

\* The raw values of the variable, as upsd quotes them: the two words that
\* stand for booleans; decimals with one ".", with none, with two; values
\* that overflow an int64 or a float64; an exponent without a "."; and text.
RawValues ==
    {"enabled", "disabled", "1.50", "-0.5", "42", "-7", "1.2.3", "", ".", "1e5",
     "9223372036854775808", "1.0e999", "inf", "hello"}

\* The types upsd declares for the variable: what follows the variable's
\* name in the reply to GET TYPE.
DeclaredTypes ==
    {"UNKNOWN", "NUMBER", "STRING", "ENUM", "STRING:20",
     "RW NUMBER", "RW ENUM", "RW STRING:3"}

\* The type of a declaration: what follows RW without its length, and all
\* of a declaration without RW.
TypeOf(declaration) ==
    LET t == After(declaration, "RW ")
        colon == Index(t, ":")
    IN  IF ~HasPrefix(declaration, "RW ") THEN declaration
        ELSE IF colon = 0 THEN t ELSE SubSeq(t, 1, colon - 1)

\* The data of a server with the device "a", whose one variable "v" has the
\* raw value and the declared type given.
DeviceUpsd(raw, declaration) ==
    [ups |-> {"a \"D\""},
     clients |-> {"h"},
     cmds |-> {"t"},
     vars |-> {"v \"" \o raw \o "\""},
     logins |-> {"1"},
     types |-> {declaration},
     descs |-> {"\"T\""},
     acks |-> {"OK"},
     errs |-> {"UNKNOWN-UPS"},
     headless |-> FALSE,
     raw |-> raw,
     declaration |-> declaration,
     declared |-> TypeOf(declaration)]

\* The caller runs GetVariables on the device it holds.
CallGetVariables ==
    /\ Idle
    /\ stack' = GetVariablesEnter(ups)
    /\ ret' = NoRet
    /\ calls' = calls + 1
    /\ quota' = MaxItems
    /\ log' = <<>>
    /\ UNCHANGED <<variant, upsd, client, conn, wire, inbox, crashed, ups>>

InitDevice ==
    /\ variant \in Variants
    /\ upsd \in {DeviceUpsd(raw, declaration) :
                    raw \in RawValues, declaration \in DeclaredTypes}
    /\ client = SessionClient
    /\ conn = "open"
    /\ wire = ""
    /\ inbox = <<>>
    /\ stack = <<>>
    /\ ret = NoRet
    /\ ups = NewUPSStruct("a")
    /\ crashed = FALSE
    /\ calls = 0
    /\ quota = 0
    /\ log = <<>>

NextDevice ==
    \/ CallGetVariables
    \/ SendCommandWrite
    \/ ReadResponse
    \/ SendCommandReturn
    \/ GetVariables
    \/ GetVariableDescription
    \/ GetVariableType
    \/ ServerReply

SpecDevice == InitDevice /\ [][NextDevice]_vars

(***************************************************************************)
(*                 The catalog: lookups of errorForMessage                 *)
(***************************************************************************)

\* Lookups in one run.
MaxLookups == 2

\* The codes looked up: those of the switch of errorForMessage, and strings
\* that are none of them: in another case, with a space, cut short, empty,
\* and the text of the default itself.
LookupCodes ==
    {"ACCESS-DENIED", "UNKNOWN-UPS", "VAR-NOT-SUPPORTED", "CMD-NOT-SUPPORTED",
     "INVALID-ARGUMENT", "INSTCMD-FAILED", "SET-FAILED", "READONLY", "TOO-LONG",
     "FEATURE-NOT-SUPPORTED", "FEATURE-NOT-CONFIGURED", "ALREADY-SSL-MODE",
     "DRIVER-NOT-CONNECTED", "DATA-STALE", "ALREADY-LOGGED-IN", "INVALID-PASSWORD",
     "ALREADY-SET-PASSWORD", "INVALID-USERNAME", "ALREADY-SET-USERNAME",
     "USERNAME-REQUIRED", "PASSWORD-REQUIRED", "UNKNOWN-COMMAND", "INVALID-VALUE",
     "access-denied", "Readonly", "ACCESS-DENIED ", " TOO-LONG", "ACCESS", "DATA_STALE",
     "", "BOGUS", "Unknown error code"}

\* A caller looks a code up; the log keeps the code and the error.
LookUp ==
    /\ Len(log) < MaxLookups
    /\ \E code \in LookupCodes :
         /\ ret' = [fn |-> "errorForMessage", val |-> code, err |-> errorForMessage(code)]
         /\ log' = Append(log, Done(Exchange(code), errorForMessage(code)))
    /\ UNCHANGED <<variant, upsd, client, conn, wire, inbox, stack, ups, crashed, calls,
                   quota>>

NextCatalog == LookUp

SpecCatalog == Init /\ [][NextCatalog]_vars

(***************************************************************************)
(*            One device held by the caller: its control commands          *)
(***************************************************************************)

\* The data of a server with the device "a", and its answers to the commands
\* that are neither LIST nor GET: "OK", "OK FSD-SET" and a line that is
\* neither.
ControlUpsd ==
    [ups |-> {"a \"D\""},
     clients |-> {"h"},
     cmds |-> {"t"},
     vars |-> {"x \"1.5\""},
     logins |-> {"1", "x"},
     types |-> {"RW STRING:3"},
     descs |-> {"\"T\""},
     acks |-> {"OK", "OK FSD-SET", "x y"},
     errs |-> {"ACCESS-DENIED"},
     headless |-> FALSE]

\* The caller starts an operation on the device it holds.
StartHeld(frames) ==
    /\ Idle
    /\ stack' = frames
    /\ ret' = NoRet
    /\ calls' = calls + 1
    /\ quota' = MaxItems
    /\ log' = <<>>
    /\ UNCHANGED <<variant, upsd, client, conn, wire, inbox, crashed, ups>>

CallCheckIfMaster == StartHeld(CheckIfMasterEnter(ups))

CallForceShutdown == StartHeld(ForceShutdownEnter(ups))

CallGetDescription == StartHeld(GetDescriptionEnter(ups))

InitControl ==
    /\ variant \in Variants
    /\ upsd = ControlUpsd
    /\ client = SessionClient
    /\ conn = "open"
    /\ wire = ""
    /\ inbox = <<>>
    /\ stack = <<>>
    /\ ret = NoRet
    /\ ups = NewUPSStruct("a")
    /\ crashed = FALSE
    /\ calls = 0
    /\ quota = 0
    /\ log = <<>>

NextControl ==
    \/ CallCheckIfMaster
    \/ CallForceShutdown
    \/ CallGetDescription
    \/ SendCommandWrite
    \/ ReadResponse
    \/ SendCommandReturn
    \/ CheckIfMaster
    \/ ForceShutdown
    \/ GetDescription
    \/ ServerReply

SpecControl == InitControl /\ [][NextControl]_vars

(***************************************************************************)
(*      One device held by the caller: its fetches, SET VAR and INSTCMD    *)
(***************************************************************************)

\* The data of a server with the device "a", which has the client "h", the
\* command "t" and the variable "v".
CacheUpsd ==
    [ups |-> {"a \"D\""},
     clients |-> {"h"},
     cmds |-> {"t"},
     vars |-> {"v \"1\""},
     logins |-> {"1", "x"},
     types |-> {"RW STRING:3"},
     descs |-> {"\"T\""},
     acks |-> {"OK", "OK x"},
     errs |-> {"ACCESS-DENIED"},
     headless |-> FALSE]

CallGetClients == StartHeld(GetClientsEnter(ups))

CallGetCommands == StartHeld(GetCommandsEnter(ups))

CallGetNumberOfLogins == StartHeld(GetNumberOfLoginsEnter(ups))

CallSetVariable == StartHeld(SetVariableEnter(ups, "v", "2"))

CallUPSSendCommand == StartHeld(UPSSendCommandEnter(ups, "t"))

InitCache ==
    /\ variant \in Variants
    /\ upsd = CacheUpsd
    /\ client = SessionClient
    /\ conn = "open"
    /\ wire = ""
    /\ inbox = <<>>
    /\ stack = <<>>
    /\ ret = NoRet
    /\ ups = NewUPSStruct("a")
    /\ crashed = FALSE
    /\ calls = 0
    /\ quota = 0
    /\ log = <<>>

NextCache ==
    \/ CallGetClients
    \/ CallGetCommands
    \/ CallGetNumberOfLogins
    \/ CallGetDescription
    \/ CallGetVariables
    \/ CallSetVariable
    \/ CallUPSSendCommand
    \/ SendCommandWrite
    \/ ReadResponse
    \/ SendCommandReturn
    \/ GetClients
    \/ GetCommands
    \/ GetCommandDescription
    \/ GetDescription
    \/ GetNumberOfLogins
    \/ GetVariables
    \/ GetVariableDescription
    \/ GetVariableType
    \/ SetVariable
    \/ UPSSendCommand
    \/ ServerReply

SpecCache == InitCache /\ [][NextCache]_vars

\* The same server when it may leave out the BEGIN line of a list: a list
\* without items is then the END line alone.
BareUpsd == [CacheUpsd EXCEPT !.headless = TRUE]

InitBare ==
    /\ variant \in Variants
    /\ upsd = BareUpsd
    /\ client = SessionClient
    /\ conn = "open"
    /\ wire = ""
    /\ inbox = <<>>
    /\ stack = <<>>
    /\ ret = NoRet
    /\ ups = NewUPSStruct("a")
    /\ crashed = FALSE
    /\ calls = 0
    /\ quota = 0
    /\ log = <<>>

SpecBare == InitBare /\ [][NextCache]_vars

(***************************************************************************)
(*       A session from its connect on: the versions, HELP and LOGOUT       *)
(***************************************************************************)

\* The data of a server that answers VER, NETVER, HELP and LOGOUT with a
\* version, with either farewell, or with "OK".
ConnectUpsd ==
    [ups |-> {"a \"D\""},
     clients |-> {"h"},
     cmds |-> {"t"},
     vars |-> {"x \"1.5\""},
     logins |-> {"1"},
     types |-> {"RW STRING:3"},
     descs |-> {"\"T\""},
     acks |-> {"2.7", "OK Goodbye", "Goodbye...", "OK"},
     errs |-> {"UNKNOWN-COMMAND"},
     headless |-> FALSE]

\* The caller connects: it holds no Client yet.
CallConnect ==
    /\ ~client.connected
    /\ StartHeld(<<Frame("Connect", "dial", "", "")>>)

\* The caller calls a method of the Client that Connect returned.
CallHelp ==
    /\ client.connected
    /\ StartHeld(HelpEnter)

CallGetVersion ==
    /\ client.connected
    /\ StartHeld(GetVersionEnter)

CallGetNetworkProtocolVersion ==
    /\ client.connected
    /\ StartHeld(GetNetworkProtocolVersionEnter)

CallDisconnect ==
    /\ client.connected
    /\ StartHeld(DisconnectEnter)

InitConnect ==
    /\ variant \in Variants
    /\ upsd = ConnectUpsd
    /\ client = NewClientStruct("", "", FALSE)
    /\ conn = "reset"
    /\ wire = ""
    /\ inbox = <<>>
    /\ stack = <<>>
    /\ ret = NoRet
    /\ ups = NewUPSStruct("")
    /\ crashed = FALSE
    /\ calls = 0
    /\ quota = 0
    /\ log = <<>>

NextConnect ==
    \/ CallConnect
    \/ CallHelp
    \/ CallGetVersion
    \/ CallGetNetworkProtocolVersion
    \/ CallDisconnect
    \/ Connect
    \/ Help
    \/ GetVersion
    \/ GetNetworkProtocolVersion
    \/ Disconnect
    \/ SendCommandWrite
    \/ ReadResponse
    \/ SendCommandReturn
    \/ ServerReply

SpecConnect == InitConnect /\ [][NextConnect]_vars

(***************************************************************************)
(*          SendCommand alone, with the client and the server running      *)
(***************************************************************************)

\* The caller sends commands with Client.SendCommand and does nothing else.
NextTransport ==
    \/ CallSendCommand
    \/ SendCommandWrite
    \/ ReadResponse
    \/ SendCommandReturn
    \/ ServerReply

\* The goroutine that called SendCommand goes on when it can: a write and a
\* return are never held up, and a read returns once a line or the end of the
\* stream is there.  upsd answers a command it has received.  Nothing makes
\* the caller send another command.
FairTransport ==
    /\ WF_vars(SendCommandWrite)
    /\ WF_vars(ReadResponse)
    /\ WF_vars(SendCommandReturn)
    /\ WF_vars(ServerReply)

SpecTransport == Init /\ [][NextTransport]_vars /\ FairTransport

(***************************************************************************)
(*                     Properties of the transport                         *)
(***************************************************************************)

Last(seq) == seq[Len(seq)]

\* The whole lines among the bytes, without their "\n".
WireLines(bytes) ==
    LET pieces == Split(bytes, "\n") IN SubSeq(pieces, 1, Len(pieces) - 1)

\* The second of the tokens a line's single spaces separate, for a line that
\* begins with "ERR ": what follows "ERR " up to the next space.
SecondToken(line) ==
    LET rest == SubSeq(line, 5, Len(line))
        k == Index(rest, " ")
    IN  IF k = 0 THEN rest ELSE SubSeq(rest, 1, k - 1)

\* The error under the layers of context that part_001 wraps round it.
Cause(err) == [err EXCEPT !.ctx = <<>>]

\* SendCommand or ReadResponse has just returned a response without error.
Succeeded ==
    /\ ret.fn \in {"SendCommand", "ReadResponse"}
    /\ ret.err = NoErr
    /\ log # <<>>

\* C1: when SendCommand has read a response, the first line decides what it
\* returns: if it begins with "ERR ", the error of the catalog for the line's
\* second space-separated token, and an empty list; otherwise the lines that
\* were read, and no error.
C1_FirstLineDecides ==
    [][(/\ At("SendCommand", "read")
        /\ ret.fn = "ReadResponse" /\ ret.err = NoErr /\ ret.val # <<>>
        /\ ret' # ret)
       => /\ ret'.fn = "SendCommand"
          /\ IF HasPrefix(ret.val[1], "ERR ")
             THEN /\ ret'.val = <<>>
                  /\ Cause(ret'.err) = errorForMessage(SecondToken(ret.val[1]))
             ELSE /\ ret'.val = ret.val
                  /\ ret'.err = NoErr]_vars

\* SendCommand has returned the catalog's error for an ERR line whose code
\* is followed by more text.
C1_Witness ==
    /\ ret.fn = "SendCommand"
    /\ ret.val = <<>>
    /\ Last(log).reply = "ERR BOGUS x\n"
    /\ Cause(ret.err) = errorForMessage("BOGUS")

\* C2: a LIST command that succeeds returns every line the server sent up to
\* and including the first line equal to "END <command>", and that line is
\* the last of the result.
C2_ListUpToTerminator ==
    (Succeeded /\ HasPrefix(Last(log).cmd, "LIST "))
    => LET sent == WireLines(Last(log).reply)
           end == "END " \o TrimSuffix(Last(log).cmd, "\n")
       IN  \E k \in 1..Len(sent) :
             /\ sent[k] = end
             /\ \A j \in 1..(k - 1) : sent[j] # end
             /\ ret.val = SubSeq(sent, 1, k)
             /\ Last(ret.val) = end

\* LIST UPS has returned three lines and more, the END line the last.
C2_Witness ==
    /\ ret.fn = "SendCommand"
    /\ ret.err = NoErr
    /\ Last(log).cmd = "LIST UPS\n"
    /\ Len(ret.val) >= 3
    /\ Last(ret.val) = "END LIST UPS"

\* C3: a command that does not begin with "LIST " and succeeds returns one
\* line and no more: the first line the server sent after the command,
\* whatever the line is.
C3_OneLine ==
    (Succeeded /\ ~HasPrefix(Last(log).cmd, "LIST "))
    => ret.val = <<Split(Last(log).reply, "\n")[1]>>

\* USERNAME has returned a line that is not the "OK" it has for an end line.
C3_Witness ==
    /\ ret.fn = "SendCommand"
    /\ ret.err = NoErr
    /\ Last(log).cmd = "USERNAME u\n"
    /\ ret.val = <<"x y">>

\* C4: the client never has two commands outstanding: when a command is on
\* its way to the server, SendCommand has returned for every command before
\* it, and nothing the server sent is left unread.
C4_OneOutstanding ==
    /\ Len(inbox) <= 1
    /\ inbox # <<>> => wire = ""
    /\ \A k \in 1..(Len(log) - 1) : log[k].done

\* A fourth command is on its way, three exchanges done before it.
C4_Witness ==
    /\ Len(log) >= 4
    /\ inbox # <<>>
    /\ ~Last(log).done

\* C5: in multi-line mode ReadResponse is not left looping by the end of the
\* stream: once a read has met it before the END line, the call has returned.
C5_EndOfStreamEndsRead ==
    ~(At("ReadResponse", "loop") /\ Top.multi /\ Top.i = 1)

\* C6: when GetUPSList returns an error, the list it returns is empty.
C6_ErrorWithEmptyList ==
    (ret.fn = "GetUPSList" /\ ret.err # NoErr) => ret.val = <<>>

(***************************************************************************)
(*                  Properties of GetUPSList and NewUPS                    *)
(***************************************************************************)

\* The commands of an operation that begin a device: the indexes in the log.
DeviceStarts == {k \in 1..Len(log) : HasPrefix(log[k].cmd, "LIST CLIENT ")}

\* The exchanges of the n-th device of the operation: from its LIST CLIENT
\* up to the next device's, or to the end of the log.
DeviceExchanges(n) ==
    LET starts == DeviceStarts
        from == {k \in starts : Cardinality({j \in starts : j <= k}) = n}
        next == {k \in starts : Cardinality({j \in starts : j <= k}) = n + 1}
    IN  IF from = {} THEN <<>>
        ELSE SubSeq(log, CHOOSE k \in from : TRUE,
                    IF next = {} THEN Len(log) ELSE (CHOOSE k \in next : TRUE) - 1)

\* The text of a line before its first double quote (all of it if it has
\* none), less one space at its end.
BeforeQuote(text) ==
    LET q == Index(text, "\"")
        before == IF q = 0 THEN text ELSE SubSeq(text, 1, q - 1)
    IN  IF Len(before) > 0 /\ Char(before, Len(before)) = " "
        THEN SubSeq(before, 1, Len(before) - 1)
        ELSE before

\* The item lines of the reply to a LIST exchange that succeeded: the whole
\* lines strictly between the first and the last.  None for any other.
ListedItems(x) ==
    IF x.done /\ x.err = NoErr
    THEN LET lines == WireLines(x.reply) IN SubSeq(lines, 2, Len(lines) - 1)
    ELSE <<>>

RECURSIVE Flatten(_)
Flatten(seqs) == IF seqs = <<>> THEN <<>> ELSE Head(seqs) \o Flatten(Tail(seqs))

\* The commands of NewUPS for the device d, in order, given the exchanges
\* seg it has had so far: the commands and the variables are those that the
\* replies to LIST CMD and LIST VAR list.
NewUPSCommands(d, seg) ==
    LET cmdItems == IF Len(seg) >= 2 THEN ListedItems(seg[2]) ELSE <<>>
        cmdDescs == [k \in 1..Len(cmdItems) |->
                        "GET CMDDESC " \o d \o " "
                            \o After(cmdItems[k], "CMD " \o d \o " ") \o "\n"]
        listVar == Len(cmdItems) + 5
        varItems == IF Len(seg) >= listVar THEN ListedItems(seg[listVar]) ELSE <<>>
        varName(k) == BeforeQuote(After(varItems[k], "VAR " \o d \o " "))
        varGets == [k \in 1..Len(varItems) |->
                       <<"GET DESC " \o d \o " " \o varName(k) \o "\n",
                         "GET TYPE " \o d \o " " \o varName(k) \o "\n">>]
    IN  <<"LIST CLIENT " \o d \o "\n", "LIST CMD " \o d \o "\n">>
        \o cmdDescs
        \o <<"GET UPSDESC " \o d \o "\n", "GET NUMLOGINS " \o d \o "\n",
             "LIST VAR " \o d \o "\n">>
        \o Flatten(varGets)

\* NewUPS is running, past the making of its struct, or has just returned.
NewUPSFrames == {k \in 1..Len(stack) : stack[k].fn = "NewUPS" /\ stack[k].pc = "fetch"}
NewUPSRuns == stack # <<>> /\ (ret.fn = "NewUPS" \/ NewUPSFrames # {})

\* The name NewUPS was called with.
NewUPSName ==
    IF ret.fn = "NewUPS" THEN ret.val.Name ELSE stack[CHOOSE k \in NewUPSFrames : TRUE].a

\* The exchanges of the NewUPS that runs: those of the device after the ones
\* GetUPSList has in its list already.
NewUPSExchanges ==
    DeviceExchanges((IF stack[1].fn = "GetUPSList" THEN Len(stack[1].acc) ELSE 0) + 1)

\* C7: NewUPS issues its commands in the order LIST CLIENT; LIST CMD, with a
\* GET CMDDESC for each command listed; GET UPSDESC; GET NUMLOGINS; LIST VAR,
\* with a GET DESC and then a GET TYPE for each variable listed.  What it has
\* issued is at every moment a prefix of that sequence; no command follows
\* one that failed, whose error NewUPS returns; and with no error all of the
\* sequence has been issued.
C7_NewUPSOrder ==
    NewUPSRuns
    => LET seg == NewUPSExchanges
           issued == [k \in 1..Len(seg) |-> seg[k].cmd]
           full == NewUPSCommands(NewUPSName, seg)
       IN  /\ Len(issued) <= Len(full)
           /\ issued = SubSeq(full, 1, Len(issued))
           /\ \A k \in 1..(Len(seg) - 1) : seg[k].done /\ seg[k].err = NoErr
           /\ ret.fn = "NewUPS"
              => /\ seg # <<>>
                 /\ ret.err = NoErr => issued = full
                 /\ Last(seg).err # NoErr => ret.err = Last(seg).err

\* NewUPS has returned without error for a device with a command and a
\* variable: eight exchanges.
C7_Witness ==
    /\ NewUPSRuns
    /\ ret.fn = "NewUPS"
    /\ ret.err = NoErr
    /\ Len(NewUPSExchanges) = 8
    /\ NewUPSExchanges[3].cmd = "GET CMDDESC a t\n"
    /\ NewUPSExchanges[8].cmd = "GET TYPE a x\n"

\* GetUPSList is the operation that runs or has just returned, and its
\* LIST UPS has succeeded.
GetUPSListRuns ==
    /\ log # <<>>
    /\ log[1].done /\ log[1].err = NoErr
    /\ IF stack = <<>> THEN ret.fn = "GetUPSList" ELSE stack[1].fn = "GetUPSList"

\* The commands that name a device, up to the name.
DeviceVerbs ==
    {"LIST CLIENT ", "LIST CMD ", "GET CMDDESC ", "GET UPSDESC ", "GET NUMLOGINS ",
     "LIST VAR ", "GET DESC ", "GET TYPE "}

\* The command line names the device: the name follows one of the verbs, and
\* the end of the line follows the name, or one space and an argument.
CarriesName(cmd, name) ==
    \E verb \in DeviceVerbs :
        LET n == Len(verb \o name)
        IN  /\ HasPrefix(cmd, verb \o name)
            /\ \/ Char(cmd, n + 1) = "\n"
               \/ Char(cmd, n + 1) = " " /\ Char(cmd, n + 2) \notin {" ", "\n"}

\* C8: GetUPSList sends LIST UPS and makes one device for each line of the
\* response that begins with "UPS ", in the order of the lines; a device's
\* name is the text between "UPS " and the line's first double quote, less
\* one space at its end; and every command sent for a device carries that
\* name.
C8_OneDevicePerUPSLine ==
    GetUPSListRuns
    => LET upsLines == SelectSeq(WireLines(log[1].reply),
                                 LAMBDA l : HasPrefix(l, "UPS "))
           names == [k \in 1..Len(upsLines) |-> BeforeQuote(After(upsLines[k], "UPS "))]
           starts == DeviceStarts
           device == [i \in 2..Len(log) |-> Cardinality({j \in starts : j <= i})]
       IN  /\ log[1].cmd = "LIST UPS\n"
           /\ \A i \in 2..Len(log) :
                /\ device[i] \in 1..Len(upsLines)
                /\ CarriesName(log[i].cmd, names[device[i]])
           /\ (ret.fn = "GetUPSList" /\ ret.err = NoErr)
              => /\ Len(ret.val) = Len(upsLines)
                 /\ Cardinality(starts) = Len(upsLines)
                 /\ \A k \in 1..Len(upsLines) : ret.val[k].Name = names[k]

\* GetUPSList has returned two devices, the second with a name that keeps a
\* space at its end.
C8_Witness ==
    /\ ret.fn = "GetUPSList"
    /\ ret.err = NoErr
    /\ Len(ret.val) = 2
    /\ ret.val[1].Name = "a"
    /\ ret.val[2].Name = "b "

(***************************************************************************)
(*                  Properties of the values of variables                  *)
(***************************************************************************)

\* The Variables GetVariables has made: those it has returned, or those of
\* its run so far.
Produced ==
    IF ret.fn = "GetVariables" THEN ret.val
    ELSE IF stack # <<>> /\ stack[1].fn = "GetVariables" THEN stack[1].acc
    ELSE <<>>

\* C9: a variable whose raw value is "enabled" has the boolean true for its
\* value and one whose raw value is "disabled" the boolean false, whatever
\* type is declared for it; no later step of GetVariables puts a number in
\* the boolean's place.
C9_EnabledDisabled ==
    \A k \in 1..Len(Produced) :
        /\ upsd.raw = "enabled" => Produced[k].Value = BoolValue(TRUE)
        /\ upsd.raw = "disabled" => Produced[k].Value = BoolValue(FALSE)

\* GetVariables has returned the boolean for "enabled" under the declared
\* type NUMBER.
C9_Witness ==
    /\ ret.fn = "GetVariables"
    /\ ret.err = NoErr
    /\ upsd.raw = "enabled"
    /\ upsd.declared = "NUMBER"
    /\ Len(ret.val) >= 1
    /\ ret.val[1].Value = BoolValue(TRUE)

\* The exchanges of the operation that fetched a type.
TypesFetched ==
    {k \in 1..Len(log) :
        HasPrefix(log[k].cmd, "GET TYPE ") /\ log[k].done /\ log[k].err = NoErr}

\* C10: a variable whose raw value is neither "enabled" nor "disabled", of
\* declared type UNKNOWN or NUMBER: with one "." and a raw value that parses
\* as a float64 it has the float for its value, the Type FLOAT_64 and the
\* declared type for its OriginalType; with no "." and a raw value that parses
\* as an int64 it has the integer, the Type INTEGER and the declared type for
\* its OriginalType.  Every other variable keeps the raw string and the
\* declared type; and a raw value that does not parse fails nothing: each
\* variable whose type was fetched is among those returned.
C10_Coercion ==
    LET raw == upsd.raw
        numeric == upsd.declared \in {"UNKNOWN", "NUMBER"}
        dots == Cardinality({i \in 1..Len(raw) : Char(raw, i) = "."})
    IN  /\ raw \notin {"enabled", "disabled"}
           => \A k \in 1..Len(Produced) :
                LET v == Produced[k]
                IN  IF numeric /\ dots = 1 /\ ParseFloat(raw).ok
                    THEN /\ v.Value = Float64Value(ParseFloat(raw))
                         /\ v.Type = "FLOAT_64"
                         /\ v.OriginalType = upsd.declared
                    ELSE IF numeric /\ dots = 0 /\ ParseInt(raw).ok
                    THEN /\ v.Value = Int64Value(ParseInt(raw))
                         /\ v.Type = "INTEGER"
                         /\ v.OriginalType = upsd.declared
                    ELSE /\ v.Value = StringValue(raw)
                         /\ v.Type = upsd.declared
        /\ ret.fn = "GetVariables" => Len(ret.val) = Cardinality(TypesFetched)

\* GetVariables has returned an exponent without a "." as the string it is,
\* under the declared type NUMBER.
C10_Witness ==
    /\ ret.fn = "GetVariables"
    /\ ret.err = NoErr
    /\ upsd.raw = "1e5"
    /\ upsd.declared = "NUMBER"
    /\ Len(ret.val) >= 1
    /\ ret.val[1].Value = StringValue("1e5")
    /\ ret.val[1].Type = "NUMBER"

FirstToken(text) ==
    LET k == Index(text, " ") IN IF k = 0 THEN text ELSE SubSeq(text, 1, k - 1)
SecondWord(text) ==
    LET k == Index(text, " ")
    IN  IF k = 0 THEN "" ELSE FirstToken(SubSeq(text, k + 1, Len(text)))

\* What the declaration of the variable's type stands for: whether it is
\* writeable, its type, and its maximum length.
Declared(declaration) ==
    LET rw == FirstToken(declaration) = "RW"
        second == SecondWord(declaration)
    IN  IF rw /\ HasPrefix(second, "STRING:")
        THEN [varType |-> "STRING", writeable |-> TRUE,
              maximumLength |-> [neg |-> FALSE,
                                 mag |-> StripZeros(After(second, "STRING:"))]]
        ELSE [varType |-> IF rw THEN second ELSE FirstToken(declaration),
              writeable |-> rw,
              maximumLength |-> [neg |-> FALSE, mag |-> "0"]]

\* C11: GetVariableType gives Writeable true exactly when the first token
\* after the prefix of the TYPE line is RW.  With RW the Type is the second
\* token, or STRING with the MaximumLength n when the second token is
\* STRING:n; without RW the Type is the first token as it is and the
\* MaximumLength is 0.  So a MaximumLength other than 0 comes only with a
\* writeable STRING.  The Variables of GetVariables carry the same.
C11_TypeLine ==
    LET d == Declared(upsd.declaration)
    IN  /\ (ret.fn = "GetVariableType" /\ ret.err = NoErr)
           => /\ ret.val = d
              /\ ret.val.maximumLength.mag # "0"
                 => ret.val.writeable /\ ret.val.varType = "STRING"
        /\ \A k \in 1..Len(Produced) :
             /\ Produced[k].Writeable = d.writeable
             /\ Produced[k].MaximumLength = d.maximumLength

\* GetVariableType has returned for the line "... RW STRING:3".
C11_Witness ==
    /\ ret.fn = "GetVariableType"
    /\ ret.err = NoErr
    /\ upsd.declaration = "RW STRING:3"
    /\ ret.val.writeable
    /\ ret.val.varType = "STRING"
    /\ ret.val.maximumLength = [neg |-> FALSE, mag |-> "3"]

(***************************************************************************)
(*                       Properties of the catalog                         *)
(***************************************************************************)

\* The error codes of the NUT protocol that the catalog knows.
KnownCodes ==
    {"ACCESS-DENIED", "UNKNOWN-UPS", "VAR-NOT-SUPPORTED", "CMD-NOT-SUPPORTED",
     "INVALID-ARGUMENT", "INSTCMD-FAILED", "SET-FAILED", "READONLY", "TOO-LONG",
     "FEATURE-NOT-SUPPORTED", "FEATURE-NOT-CONFIGURED", "ALREADY-SSL-MODE",
     "DRIVER-NOT-CONNECTED", "DATA-STALE", "ALREADY-LOGGED-IN", "INVALID-PASSWORD",
     "ALREADY-SET-PASSWORD", "INVALID-USERNAME", "ALREADY-SET-USERNAME",
     "USERNAME-REQUIRED", "PASSWORD-REQUIRED", "UNKNOWN-COMMAND", "INVALID-VALUE"}

\* The message for a string that is not a known code.
FallbackMessage == "Unknown error code"

\* C12: errorForMessage gives each known code a message of its own, not
\* empty and the same at every lookup; two different known codes never have
\* the same message; and every string that is not a known code, whatever its
\* case or its spaces, has the one fallback message, which is not empty and
\* is the message of no known code.
C12_Catalog ==
    /\ FallbackMessage # ""
    /\ \A i \in 1..Len(log) :
         /\ log[i].err.kind = "nut"
         /\ log[i].err.msg # ""
         /\ log[i].cmd \in KnownCodes <=> log[i].err.msg # FallbackMessage
         /\ \A j \in 1..Len(log) :
              /\ log[i].cmd = log[j].cmd => log[i].err = log[j].err
              /\ (log[i].cmd \in KnownCodes /\ log[j].cmd \in KnownCodes
                    /\ log[i].cmd # log[j].cmd)
                 => log[i].err.msg # log[j].err.msg

\* A known code has been looked up, and after it the same in lower case.
C12_Witness ==
    /\ Len(log) = 2
    /\ log[1].cmd = "ACCESS-DENIED"
    /\ log[1].err.msg # FallbackMessage
    /\ log[2].cmd = "access-denied"
    /\ log[2].err.msg = FallbackMessage

(***************************************************************************)
(*                  Properties of the session's operations                 *)
(***************************************************************************)

\* The operation fn runs, or has just returned to the caller.
Operation(fn) ==
    IF stack = <<>> THEN ret.fn = fn ELSE stack[1].fn = fn

\* The first line of the reply of an exchange.
FirstLine(x) == Split(x.reply, "\n")[1]

\* The exchange has succeeded: SendCommand has returned without error.
Answered(x) == x.done /\ x.err = NoErr

\* C13: Authenticate sends USERNAME <u> and then PASSWORD <p>, the second
\* only when SendCommand has returned for the first, and never if the first
\* failed: the result is then false with that error.  It returns true
\* exactly when both commands succeeded with a first line that is "OK"; when
\* both succeeded and a line is not "OK", it returns false and no error.
C13_Authenticate ==
    Operation("Authenticate")
    => /\ Len(log) <= 2
       /\ Len(log) >= 1 => log[1].cmd = "USERNAME u\n"
       /\ Len(log) = 2 => log[2].cmd = "PASSWORD p\n" /\ Answered(log[1])
       /\ ret.fn = "Authenticate"
          => /\ log # <<>>
             /\ Last(log).done
             /\ ret.val = TRUE
                <=> /\ Len(log) = 2
                    /\ \A k \in 1..2 : Answered(log[k]) /\ FirstLine(log[k]) = "OK"
             /\ IF Last(log).err # NoErr
                THEN ret.val = FALSE /\ Cause(ret.err) = Cause(Last(log).err)
                ELSE Len(log) = 2 /\ ret.err = NoErr

\* Authenticate has returned true, after two exchanges.
C13_Witness ==
    /\ ret.fn = "Authenticate"
    /\ ret.val = TRUE
    /\ ret.err = NoErr
    /\ Len(log) = 2

(***************************************************************************)
(*               Properties of the device's control commands               *)
(***************************************************************************)

\* The operation has sent one command, cmd, and no other.
OneCommand(cmd) ==
    /\ Len(log) <= 1
    /\ log # <<>> => log[1].cmd = cmd \o "\n"

\* The reply of the exchange is an ERR line.
ErrReply(x) == HasPrefix(x.reply, "ERR ") /\ HasSuffix(x.reply, "\n")

\* C14: ForceShutdown sends FSD <dev>, and returns true only for the reply
\* line "OK FSD-SET"; any other line that is no error, a plain "OK" too,
\* gives false and no error; an ERR line gives false and the error of the
\* catalog for its code.
C14_ForceShutdown ==
    Operation("ForceShutdown")
    => /\ OneCommand("FSD a")
       /\ ret.fn = "ForceShutdown"
          => /\ Len(log) = 1 /\ log[1].done
             /\ ret.val = TRUE <=> Answered(log[1]) /\ FirstLine(log[1]) = "OK FSD-SET"
             /\ Answered(log[1]) => ret.err = NoErr
             /\ ~Answered(log[1]) => ret.val = FALSE /\ ret.err = log[1].err
             /\ ErrReply(log[1])
                => /\ ret.val = FALSE
                   /\ Cause(ret.err) = errorForMessage(SecondToken(FirstLine(log[1])))

\* ForceShutdown has returned false and no error for a plain "OK".
C14_Witness ==
    /\ ret.fn = "ForceShutdown"
    /\ ret.val = FALSE
    /\ ret.err = NoErr
    /\ log[1].reply = "OK\n"

\* C17: CheckIfMaster sends MASTER <dev>, and returns true, with the Master
\* flag of the device set, exactly for the reply line "OK"; for any other
\* reply and for an error it returns false and leaves the flag as it was.
\* No step of any operation takes the flag from true to false, and only a
\* CheckIfMaster that returns true takes it from false to true.
C17_CheckIfMaster ==
    /\ [](Operation("CheckIfMaster")
          => /\ OneCommand("MASTER a")
             /\ ret.fn = "CheckIfMaster"
                => /\ Len(log) = 1 /\ log[1].done
                   /\ ret.val = TRUE <=> Answered(log[1]) /\ FirstLine(log[1]) = "OK"
                   /\ ret.val = TRUE => ups.Master
                   /\ Answered(log[1]) => ret.err = NoErr
                   /\ ~Answered(log[1]) => ret.err = log[1].err)
    /\ [][/\ ups.Master => ups'.Master
          /\ ups'.Master # ups.Master
             => ret'.fn = "CheckIfMaster" /\ ret'.val = TRUE /\ ret' # ret]_vars

\* CheckIfMaster has returned false for "OK FSD-SET" on a device that an
\* earlier CheckIfMaster made master: the flag is still set.
C17_Witness ==
    /\ ret.fn = "CheckIfMaster"
    /\ ret.val = FALSE
    /\ ret.err = NoErr
    /\ log[1].reply = "OK FSD-SET\n"
    /\ ups.Master


(***************************************************************************)
(*        Properties of connecting, the versions, HELP and LOGOUT          *)
(***************************************************************************)

\* The operations that pass a line of the server on to their caller.
LineOperations ==
    {"Help", "GetVersion", "GetNetworkProtocolVersion", "Disconnect", "Connect"}

\* An exchange of the running operation has failed.
ExchangeFailed == \E k \in 1..Len(log) : log[k].done /\ log[k].err # NoErr

\* C15: a failure of SendCommand (of its write, of its read, or an ERR reply)
\* during Help, GetVersion, GetNetworkProtocolVersion, Disconnect or the
\* VER/NETVER exchange of the connect is returned as the error of that
\* operation: the operation does not crash, does not return without an
\* error, and sends no command a second time.
C15_FailureReturned ==
    \A fn \in LineOperations :
        Operation(fn)
        => /\ ~crashed
           /\ ret.fn = fn /\ ExchangeFailed => ret.err # NoErr
           /\ \A j, k \in 1..Len(log) : j # k => log[j].cmd # log[k].cmd

\* C16: when the connect returns a Client without an error, its two exchanges
\* are VER and then NETVER, both answered, the Client's Version is the first
\* line of the reply to VER and its ProtocolVersion the first line of the
\* reply to NETVER.  While the connect runs NETVER is sent only once VER is
\* answered or given up, nothing else is sent, and the caller, who holds no
\* Client before the connect has returned one, runs nothing but the connect.
C16_ConnectVersions ==
    /\ ~client.connected => stack = <<>> \/ stack[1].fn = "Connect"
    /\ Operation("Connect")
       => /\ Len(log) <= 2
          /\ Len(log) >= 1 => log[1].cmd = "VER\n"
          /\ Len(log) = 2 => log[2].cmd = "NETVER\n" /\ log[1].done
          /\ (ret.fn = "Connect" /\ ret.err = NoErr)
             => /\ Len(log) = 2
                /\ Answered(log[1])
                /\ Answered(log[2])
                /\ client.connected
                /\ ret.val = client
                /\ client.Version = FirstLine(log[1])
                /\ client.ProtocolVersion = FirstLine(log[2])

\* The connect has returned a Client whose two versions differ.
C16_Witness ==
    /\ ret.fn = "Connect"
    /\ ret.err = NoErr
    /\ client.connected
    /\ client.Version = "2.7"
    /\ client.ProtocolVersion = "OK"

\* C18: Disconnect sends LOGOUT and nothing else.  It returns true exactly
\* when the command succeeded and the reply line is "OK Goodbye" or
\* "Goodbye..."; on any other reply of a command that succeeded it returns
\* false and no error; when the command failed it returns false and the
\* error of the command.
C18_Disconnect ==
    Operation("Disconnect")
    => /\ OneCommand("LOGOUT")
       /\ ret.fn = "Disconnect"
          => /\ Len(log) = 1
             /\ log[1].done
             /\ ret.val = TRUE
                <=> /\ Answered(log[1])
                    /\ FirstLine(log[1]) \in {"OK Goodbye", "Goodbye..."}
             /\ IF log[1].err # NoErr
                THEN ret.val = FALSE /\ Cause(ret.err) = Cause(log[1].err)
                ELSE ret.err = NoErr

\* Disconnect has returned true on the farewell "Goodbye...".
C18_Witness ==
    /\ ret.fn = "Disconnect"
    /\ ret.val = TRUE
    /\ ret.err = NoErr
    /\ Len(log) = 1
    /\ FirstLine(log[1]) = "Goodbye..."


(***************************************************************************)
(*                 Properties of SendCommand that take time                *)
(***************************************************************************)

\* The last command sent is a LIST command, the server has answered it with
\* one ERR line and nothing more, and the connection is open.
ListAnsweredErr ==
    /\ log # <<>>
    /\ HasPrefix(Last(log).cmd, "LIST ")
    /\ ErrReply(Last(log))
    /\ conn = "open"

\* C19: when the server answers a LIST command with one ERR line, sends
\* nothing more and keeps the connection open, SendCommand eventually
\* returns, and it returns the catalog error for the code of the line.
C19_ListErrReturns ==
    ListAnsweredErr
    ~> /\ ListAnsweredErr
       /\ Last(log).done
       /\ Cause(Last(log).err) = errorForMessage(SecondToken(FirstLine(Last(log))))


(***************************************************************************)
(*               Properties of the device's cached fields                  *)
(***************************************************************************)

\* The fetch that writes each cached field of the UPS.
FetchOf ==
    [Clients |-> "GetClients", Commands |-> "GetCommands",
     Description |-> "GetDescription", NumberOfLogins |-> "GetNumberOfLogins",
     Variables |-> "GetVariables"]

CachedFields == DOMAIN FetchOf

\* C21: a cached field of the device (Clients, Commands, Description,
\* NumberOfLogins, Variables) changes only in the step in which its own fetch
\* returns without an error, and it then has the value the fetch returns.  So
\* a fetch that fails at any point, a nested description or type included,
\* leaves its field as it was before the call, and no fetch touches the
\* field of another.
C21_CachedFields ==
    [][\A field \in CachedFields :
          ups'[field] # ups[field]
          => /\ ret'.fn = FetchOf[field]
             /\ ret'.err = NoErr
             /\ ret'.val = ups'[field]
             /\ \A other \in CachedFields \ {field} : ups'[other] = ups[other]]_vars

\* GetVariables has failed after it had parsed one variable, and the device
\* still has the two variables of the run before.
C21_Witness ==
    /\ ret.fn = "GetVariables"
    /\ ret.err # NoErr
    /\ Len(ret.val) = 1
    /\ Len(ups.Variables) = 2


\* What a command of the device (SetVariable, UPS.SendCommand) that sends cmd
\* has sent and returned: cmd and nothing else; true exactly when the command
\* succeeded with the reply line "OK"; false and no error on another line;
\* false and the error of the command when it failed.
CommandOutcome(fn, cmd) ==
    Operation(fn)
    => /\ OneCommand(cmd)
       /\ ret.fn = fn
          => /\ Len(log) = 1
             /\ log[1].done
             /\ ret.val = TRUE <=> Answered(log[1]) /\ FirstLine(log[1]) = "OK"
             /\ IF log[1].err # NoErr
                THEN ret.val = FALSE /\ ret.err = log[1].err
                ELSE ret.err = NoErr

\* A command of the device runs.
CommandRuns ==
    stack # <<>> /\ stack[1].fn \in {"SetVariable", "UPS.SendCommand"}

\* C22: SetVariable sends SET VAR <dev> <var> "<val>" and UPS.SendCommand
\* sends INSTCMD <dev> <cmd>, each that one command and no other, and each
\* returns true exactly when the reply line is "OK".  From its call to its
\* return, whatever the outcome, no step changes a field of the device: the
\* Variables cached before a SetVariable are those cached after it.
C22_Commands ==
    /\ [](/\ CommandOutcome("SetVariable", "SET VAR a v \"2\"")
          /\ CommandOutcome("UPS.SendCommand", "INSTCMD a t"))
    /\ [][CommandRuns \/ CommandRuns' => ups' = ups]_vars

\* SetVariable has returned true for the value "2" on a device whose cached
\* variable still has the value "1".
C22_Witness ==
    /\ ret.fn = "SetVariable"
    /\ ret.val = TRUE
    /\ ret.err = NoErr
    /\ Len(ups.Variables) = 1
    /\ ups.Variables[1].Name = "v"
    /\ ups.Variables[1].Value = StringValue("1")


(***************************************************************************)
(*                 Properties of the device's list fetches                 *)
(***************************************************************************)

\* The fetches that read a list, with the word that begins their item lines.
ListFetches ==
    [GetClients |-> "CLIENT", GetCommands |-> "CMD", GetVariables |-> "VAR"]

\* The name that an entry of the result of the fetch fn carries.
EntryName(fn, entry) == IF fn = "GetClients" THEN entry ELSE entry.Name

\* The name in an item line of the response to the fetch fn: what follows
\* the word and the device, up to the quoted value if there is one.
ItemName(fn, line) ==
    BeforeQuote(TrimPrefix(line, ListFetches[fn] \o " " \o ups.Name \o " "))

\* C23: for a response to LIST CLIENT, LIST CMD or LIST VAR that succeeded,
\* GetClients, GetCommands and GetVariables return one entry for each line
\* strictly between the first and the last line of the response, in the
\* order of the lines, and none for the first or the last; and they do so
\* without a crash on every such response, the END line alone included, for
\* which they return no entry.
C23_ListEntries ==
    \A fn \in DOMAIN ListFetches :
        Operation(fn)
        => /\ ~crashed
           /\ (ret.fn = fn /\ ret.err = NoErr)
              => LET items == ListedItems(log[1])
                 IN  /\ Len(ret.val) = Len(items)
                     /\ \A k \in 1..Len(items) :
                          EntryName(fn, ret.val[k]) = ItemName(fn, items[k])

=============================================================================
